---- MODULE Spec2Model ----
(***************************************************************************)
(* Model of site-auditor's audit engine (package main):                    *)
(*   newAudit / parseAndValidateChecks   check selection                   *)
(*   audit.run                           one browser, sites in input order *)
(*   audit.runSingle                     the per-site check pipeline       *)
(*   audit.waitNetworkIdle               the event-driven idle detector    *)
(*   isIgnoredResource                   the resource-pattern filter       *)
(* The browser (chromedp) is the environment: every round trip either      *)
(* succeeds or fails, and what a page evaluates to is drawn from Pages.    *)
(***************************************************************************)
EXTENDS Integers, Sequences, FiniteSets, TLC

\* ------------------------------------------------------------------ bounds
\* longest website list handed to audit.run
MaxSites == 2

\* ------------------------------------------------------- check selection
\* fields of auditChecks, in declaration order
CheckNames ==
  << "secure", "lcp", "consoleErrs", "requestErrs", "missingHeaders",
     "responsiveIssues", "formIssues", "techStack", "screenshot" >>

Checks == { CheckNames[k] : k \in 1..Len(CheckNames) }

\* the zero value of auditCheck[T].result for each field's T
ZeroResult(c) ==
  IF c \in {"secure", "screenshot"} THEN FALSE
  ELSE IF c = "lcp" THEN 0
  ELSE << >>

\* an auditChecks value with the given fields enabled and every result zero
auditChecks(enabledSet) ==
  [ c \in Checks |-> [ enabled |-> c \in enabledSet, result |-> ZeroResult(c) ] ]

\* CheckOfName with the "headers" case enabling the secure field
CheckOfName_HeadersAsSecure(name) ==
  CASE name = "security"   -> "secure"
    [] name = "lcp"        -> "lcp"
    [] name = "console"    -> "consoleErrs"
    [] name = "request"    -> "requestErrs"
    [] name = "headers"    -> "secure"
    [] name = "mobile"     -> "responsiveIssues"
    [] name = "form"       -> "formIssues"
    [] name = "tech"       -> "techStack"
    [] name = "screenshot" -> "screenshot"
    [] OTHER               -> "unknown"

\* the switch of parseAndValidateChecks: check name -> auditChecks field
CheckOfName(name) ==
  CASE name = "security"   -> "secure"
    [] name = "lcp"        -> "lcp"
    [] name = "console"    -> "consoleErrs"
    [] name = "request"    -> "requestErrs"
    [] name = "headers"    -> "missingHeaders"
    [] name = "mobile"     -> "responsiveIssues"
    [] name = "form"       -> "formIssues"
    [] name = "tech"       -> "techStack"
    [] name = "screenshot" -> "screenshot"
    [] OTHER               -> "unknown"

\* A comma-separated checks string is the sequence of its comma-delimited
\* tokens; a token is its text with the count of blanks around it.
\* strings.TrimSpace drops the blanks.
Token(pre, name, post) == [ pre |-> pre, name |-> name, post |-> post ]

TrimSpace(tok) == tok.name

RECURSIVE EnableTokens_SkipUnknown(_, _)
\* EnableTokens with a default case that ignores the token
EnableTokens_SkipUnknown(tokens, enabledSet) ==
  IF tokens = << >> THEN [ err |-> "nil", detail |-> "none", enabled |-> enabledSet ]
  ELSE LET check == TrimSpace(Head(tokens)) IN
       IF CheckOfName(check) = "unknown"
       THEN EnableTokens_SkipUnknown(Tail(tokens), enabledSet)
       ELSE EnableTokens_SkipUnknown(Tail(tokens), enabledSet \cup {CheckOfName(check)})

RECURSIVE EnableTokens_LastWins(_, _)
\* EnableTokens with each token replacing the selection made so far
EnableTokens_LastWins(tokens, enabledSet) ==
  IF tokens = << >> THEN [ err |-> "nil", detail |-> "none", enabled |-> enabledSet ]
  ELSE LET check == TrimSpace(Head(tokens)) IN
       IF CheckOfName(check) = "unknown"
       THEN [ err |-> "unknown check", detail |-> check, enabled |-> enabledSet ]
       ELSE EnableTokens_LastWins(Tail(tokens), {CheckOfName(check)})

\* the loop of parseAndValidateChecks over the tokens, left to right:
\* enables one field per token, stops at the first unknown token; an error's
\* detail is the text its format string is filled with ("unknown check: %s")
RECURSIVE EnableTokens(_, _)
EnableTokens(tokens, enabledSet) ==
  IF tokens = << >> THEN [ err |-> "nil", detail |-> "none", enabled |-> enabledSet ]
  ELSE LET check == TrimSpace(Head(tokens)) IN
       IF CheckOfName(check) = "unknown"
       THEN [ err |-> "unknown check", detail |-> check, enabled |-> enabledSet ]
       ELSE EnableTokens(Tail(tokens), enabledSet \cup {CheckOfName(check)})

ImportantChecks == {"secure", "responsiveIssues", "formIssues", "techStack"}

\* parseAndValidateChecks without the test that rejects important together
\* with a checks string
parseAndValidateChecks_ImportantWins(checksStr, important) ==
  IF important
  THEN [ err |-> "nil", detail |-> "none", checks |-> auditChecks(ImportantChecks) ]
  ELSE IF checksStr = << >>
  THEN [ err |-> "nil", detail |-> "none", checks |-> auditChecks(Checks) ]
  ELSE LET r == EnableTokens(checksStr, {}) IN
       [ err |-> r.err, detail |-> r.detail, checks |-> auditChecks(r.enabled) ]

parseAndValidateChecks(checksStr, important) ==
  IF important /\ checksStr # << >>
  THEN [ err |-> "important checks are predefined", detail |-> "none",
         checks |-> auditChecks({}) ]
  ELSE IF important
  THEN [ err |-> "nil", detail |-> "none", checks |-> auditChecks(ImportantChecks) ]
  ELSE IF checksStr = << >>
  THEN [ err |-> "nil", detail |-> "none", checks |-> auditChecks(Checks) ]
  ELSE LET r == EnableTokens(checksStr, {}) IN
       [ err |-> r.err, detail |-> r.detail, checks |-> auditChecks(r.enabled) ]


\* validateAndCreateScreenshotDir: os.MkdirAll runs only when the screenshot
\* check is enabled; mkdirOk is what the file system answers
validateAndCreateScreenshotDir(checks, mkdirOk) ==
  IF ~checks["screenshot"].enabled THEN "nil"
  ELSE IF mkdirOk THEN "nil"
  ELSE "failed to create screenshot directory"

NoAudit == [ checks |-> auditChecks({}), important |-> FALSE, valid |-> FALSE ]

newAudit(checksStr, important, mkdirOk) ==
  LET parsed == parseAndValidateChecks(checksStr, important) IN
  IF parsed.err # "nil"
  THEN [ err |-> "failed to parse audit checks", cause |-> parsed.err,
         detail |-> parsed.detail, audit |-> NoAudit ]
  ELSE IF validateAndCreateScreenshotDir(parsed.checks, mkdirOk) # "nil"
  THEN [ err |-> "failed screenshot directory validation/creation",
         cause |-> "failed to create screenshot directory", detail |-> "none",
         audit |-> NoAudit ]
  ELSE [ err |-> "nil", cause |-> "nil", detail |-> "none",
         audit |-> [ checks |-> parsed.checks, important |-> important, valid |-> TRUE ] ]

\* ---------------------------------------------------------------- strings
\* A Go string is modelled as the sequence of its characters.
\* unicode.ToLower on one character
LowerChar(c) ==
  CASE c = "A" -> "a"
    [] c = "B" -> "b"
    [] c = "C" -> "c"
    [] c = "D" -> "d"
    [] c = "E" -> "e"
    [] c = "F" -> "f"
    [] c = "G" -> "g"
    [] c = "H" -> "h"
    [] c = "I" -> "i"
    [] c = "J" -> "j"
    [] c = "K" -> "k"
    [] c = "L" -> "l"
    [] c = "M" -> "m"
    [] c = "N" -> "n"
    [] c = "O" -> "o"
    [] c = "P" -> "p"
    [] c = "Q" -> "q"
    [] c = "R" -> "r"
    [] c = "S" -> "s"
    [] c = "T" -> "t"
    [] c = "U" -> "u"
    [] c = "V" -> "v"
    [] c = "W" -> "w"
    [] c = "X" -> "x"
    [] c = "Y" -> "y"
    [] c = "Z" -> "z"
    [] OTHER -> c

\* strings.ToLower
ToLower(str) == [ k \in 1..Len(str) |-> LowerChar(str[k]) ]

\* strings.HasPrefix
HasPrefix(str, prefix) ==
  Len(str) >= Len(prefix) /\ SubSeq(str, 1, Len(prefix)) = prefix

\* strings.Contains
Contains(str, substr) ==
  \E k \in 0..(Len(str) - Len(substr)) : SubSeq(str, k + 1, k + Len(substr)) = substr

\* "blob:" and "data:"
BlobPrefix == << "b", "l", "o", "b", ":" >>

DataPrefix == << "d", "a", "t", "a", ":" >>

\* isIgnoredResource without the "data:" test
isIgnoredResource_NoDataPrefix(resource, ignoredPatterns) ==
  \/ HasPrefix(resource, BlobPrefix)
  \/ \E j \in 1..Len(ignoredPatterns) : Contains(resource, ignoredPatterns[j])

\* isIgnoredResource reports whether the resource matches any ignored pattern
isIgnoredResource(resource, ignoredPatterns) ==
  \/ HasPrefix(resource, BlobPrefix)
  \/ HasPrefix(resource, DataPrefix)
  \/ \E j \in 1..Len(ignoredPatterns) : Contains(resource, ignoredPatterns[j])

\* patterns to ignore during idle check (analytics, tracking, chats, favicons)
ignoredIdlePatterns ==
  << << "g", "o", "o", "g", "l", "e", "-", "a", "n", "a", "l", "y", "t", "i", "c", "s", ".", "c", "o", "m" >>,
     << "g", "o", "o", "g", "l", "e", "t", "a", "g", "m", "a", "n", "a", "g", "e", "r", ".", "c", "o", "m" >>,
     << "d", "o", "u", "b", "l", "e", "c", "l", "i", "c", "k", ".", "n", "e", "t" >>,
     << "f", "a", "c", "e", "b", "o", "o", "k", ".", "n", "e", "t" >>,
     << "h", "o", "t", "j", "a", "r", ".", "c", "o", "m" >>,
     << "f", "a", "v", "i", "c", "o", "n", ".", "i", "c", "o" >>,
     << "g", "o", "o", "g", "l", "e", ".", "c", "o", "m", "/", "g", "e", "n", "_", "2", "0", "4" >>,
     << "a", "m", "a", "z", "o", "n", "-", "a", "d", "s", "y", "s", "t", "e", "m", ".", "c", "o", "m" >>,
     << "g", "o", "o", "g", "l", "e", "s", "y", "n", "d", "i", "c", "a", "t", "i", "o", "n", ".", "c", "o", "m" >>,
     << "a", "d", "s", "y", "s", "t", "e", "m", ".", "a", "m", "a", "z", "o", "n" >>,
     << "f", "a", "c", "e", "b", "o", "o", "k", ".", "c", "o", "m", "/", "t", "r" >>,
     << "l", "i", "n", "k", "e", "d", "i", "n", ".", "c", "o", "m", "/", "p", "x" >>,
     << "t", "w", "i", "t", "t", "e", "r", ".", "c", "o", "m", "/", "i", "/", "a", "d", "s", "c", "t" >>,
     << "p", "i", "n", "t", "e", "r", "e", "s", "t", ".", "c", "o", "m", "/", "c", "t" >>,
     << "t", "i", "k", "t", "o", "k", ".", "c", "o", "m", "/", "i", "1", "8", "n" >>,
     << "s", "n", "a", "p", "c", "h", "a", "t", ".", "c", "o", "m", "/", "p" >>,
     << "s", "c", "o", "r", "e", "c", "a", "r", "d", "r", "e", "s", "e", "a", "r", "c", "h", ".", "c", "o", "m" >>,
     << "n", "e", "w", "r", "e", "l", "i", "c", ".", "c", "o", "m" >>,
     << "c", "l", "o", "u", "d", "f", "l", "a", "r", "e", "i", "n", "s", "i", "g", "h", "t", "s", ".", "c", "o", "m" >>,
     << "s", "e", "g", "m", "e", "n", "t", ".", "i", "o" >>,
     << "s", "e", "n", "t", "r", "y", ".", "i", "o" >>,
     << "m", "o", "n", "o", "r", "a", "i", "l", "-", "e", "d", "g", "e", ".", "s", "h", "o", "p", "i", "f", "y", ".", "c", "o", "m" >>,
     << "s", "h", "o", "p", "i", "f", "y", "c", "l", "o", "u", "d", ".", "c", "o", "m" >>,
     << "i", "n", "t", "e", "r", "c", "o", "m", ".", "i", "o" >>,
     << "z", "e", "n", "d", "e", "s", "k", ".", "c", "o", "m" >>,
     << "d", "r", "i", "f", "t", ".", "c", "o", "m" >>,
     << "c", "r", "i", "s", "p", ".", "c", "h", "a", "t" >>,
     << "t", "a", "w", "k", ".", "t", "o" >>,
     << "l", "i", "v", "e", "c", "h", "a", "t", ".", "c", "o", "m" >>,
     << "f", "r", "e", "s", "h", "c", "h", "a", "t", ".", "c", "o", "m" >>,
     << "h", "e", "l", "p", "s", "c", "o", "u", "t", ".", "n", "e", "t" >>,
     << "o", "l", "a", "r", "k", ".", "c", "o", "m" >>,
     << "l", "i", "v", "e", "p", "e", "r", "s", "o", "n", ".", "n", "e", "t" >>,
     << "p", "u", "s", "h", "e", "r", ".", "c", "o", "m" >>,
     << "a", "n", "a", "l", "y", "t", "i", "c", "s" >>,
     << "t", "e", "l", "e", "m", "e", "t", "r", "y" >> >>

\* ------------------------------------------------------------- inputs
\* the checks strings the batch model is run with ("" is << >>)
BatchChecksStrs ==
  { << >>,
    << Token(0, "tech", 0) >>,
    << Token(0, "form", 0), Token(1, "tech", 0) >>,
    << Token(0, "lcp", 0), Token(0, "headers", 1) >>,
    << Token(0, "console", 0), Token(0, "screenshot", 0) >>,
    << Token(0, "request", 0), Token(0, "mobile", 0) >>,
    << Token(0, "lcp", 0), Token(0, "bogus", 0) >> }

DomainPool == << "a.com", "b.org", "c.net", "d.io" >>

\* a *website: domain and scheme
SiteAt(k) == [ domain |-> DomainPool[k],
               scheme |-> IF k % 2 = 1 THEN "https" ELSE "http" ]

Prefix(n) == [ k \in 1..n |-> SiteAt(k) ]

\* the website lists audit.run is called with
SiteLists == { Prefix(n) : n \in 0..MaxSites }

\* What a loaded page answers: the main-document status and headers, and the
\* value each in-page script evaluates to.
PageContents ==
  { [ secure |-> TRUE, lcp |-> 0, consoleErrs |-> << >>, requestErrs |-> << >>,
      responsiveIssues |-> << >>, formIssues |-> << >>,
      techStack |-> << "React" >>,
      headers |-> { "content-security-policy", "Strict-Transport-Security",
                    "X-Content-Type-Options", "x-frame-options",
                    "Permissions-Policy", "Referrer-Policy", "Server" } ],
    [ secure |-> FALSE, lcp |-> 1800, consoleErrs |-> << "TypeError" >>,
      requestErrs |-> << "GET /x.js 404" >>,
      responsiveIssues |-> << "No viewport meta tag" >>, formIssues |-> << >>,
      techStack |-> << >>,
      headers |-> { "Content-Security-Policy", "X-Content-Type-Options",
                    "Permissions-Policy", "Referrer-Policy" } ],
    [ secure |-> TRUE, lcp |-> 900, consoleErrs |-> << >>, requestErrs |-> << >>,
      responsiveIssues |-> << >>,
      formIssues |-> << "Form missing submit button" >>,
      techStack |-> << "WordPress", "jQuery" >>,
      headers |-> { } ] }

\* main-document statuses: the two values around the test nr.Status >= 400
Statuses == { 399, 400 }

Pages == { [ status |-> st, content |-> ct ] : st \in Statuses, ct \in PageContents }

NoPage == [ status |-> 0, content |-> << >> ]

\* ------------------------------------------------------ security headers
\* case folding of the header names that occur
FoldKey(h) ==
  CASE h = "Content-Security-Policy"   -> "content-security-policy"
    [] h = "Strict-Transport-Security" -> "strict-transport-security"
    [] h = "X-Content-Type-Options"    -> "x-content-type-options"
    [] h = "X-Frame-Options"           -> "x-frame-options"
    [] h = "Permissions-Policy"        -> "permissions-policy"
    [] h = "Referrer-Policy"           -> "referrer-policy"
    [] h = "Server"                    -> "server"
    [] h = "X-FRAME-OPTIONS"           -> "x-frame-options"
    [] OTHER                           -> h

\* EqualFold comparing the two strings as they are
EqualFold_CaseSensitive(x, y) == x = y

\* strings.EqualFold
EqualFold(x, y) == FoldKey(x) = FoldKey(y)

securityHeaders ==
  << "Content-Security-Policy", "Strict-Transport-Security",
     "X-Content-Type-Options", "X-Frame-Options", "Permissions-Policy",
     "Referrer-Policy" >>

RECURSIVE MissingFrom(_, _)
MissingFrom(required, resHeaders) ==
  IF required = << >> THEN << >>
  ELSE LET header == Head(required)
           found  == \E key \in resHeaders : EqualFold(key, header)
       IN  IF found THEN MissingFrom(Tail(required), resHeaders)
           ELSE << header >> \o MissingFrom(Tail(required), resHeaders)

checkSecurityHeaders(resHeaders) == MissingFrom(securityHeaders, resHeaders)


\* ------------------------------------------------------------------ state
VARIABLES
  checksStr,   \* config.checks, as its comma-delimited tokens
  important,   \* config.important
  a,           \* the audit instance newAudit returned
  websites,    \* the list handed to audit.run
  pc,          \* position of main / audit.run
  browser,     \* the browser process: "none", "running", "closed"
  i,           \* audit.run's loop index (1-based)
  results,     \* audit.run's results slice
  runErr,      \* the error audit.run returns ("nil" for none)
  step,        \* position of runSingle in its pipeline
  result,      \* runSingle's local auditResult
  page,        \* the page the target navigation loaded (nr and the document)
  navUrl,      \* the URL handed to chromedp.Navigate
  idle,        \* how waitNetworkIdle returned: the select branch and the error
  trace,       \* the pipeline steps runSingle has carried out for this site
  siteCtx,     \* timeoutCtx of the current site: "none", "live", "deadline", "canceled"
  batchCtx,    \* the ctx audit.run was called with: "live", "canceled"
  cancelledAt, \* what the current call of runSingle had at hand when that ctx
               \* was cancelled ("none": not cancelled during this call)
  windows,     \* the sites whose windowCtx exists and has not been cancelled
  report,      \* the records csvSink.writeResults has written to the output file
  \* one call of waitNetworkIdle, in time
  now,             \* milliseconds since the call began
  net,             \* the page's requests: id -> state ("new", "sent", "finished", "failed") and URL
  activeRequests,  \* map[network.RequestID]string
  idleTimer,       \* time.Timer: stopped, or armed to fire at a time
  staticSiteTimer,
  timeout,
  wpc,             \* position in waitNetworkIdle: "call", "select", "staticReady", "returned"
  wret,            \* the select branch taken, the error returned and when
  wctx,            \* the ctx of the call: "live", "deadline", "canceled"
  hist,            \* what the listener handled before the call returned
  \* one call of extractWebsites / ExtractWebsites and main's next statement
  efn,         \* the function called: "extractWebsites" or "ExtractWebsites"
  extractors,  \* its extractors argument, as the extractors' names
  gor,         \* per extractor, its goroutine: position and what extract returned
  resultCh,    \* the channel: its capacity and the values buffered in it
  epc,         \* position of the caller: "launch", "collect", "returned",
               \* then main at "audit" or "fatal"
  ek,          \* index of the range loop at hand
  allURLs,
  received,    \* the results taken from resultCh, in order
  eret,        \* what the function returned
  \* one call of a pure function
  fnCall,          \* the function and its arguments
  fnRet            \* what it returned (NotCalled before the call)

cfgVars  == << checksStr, important >>
mainVars == << a, websites, pc, browser, i, results, runErr >>
siteVars == << step, result, page, navUrl, idle, trace >>
ctxVars  == << siteCtx, batchCtx, cancelledAt, windows >>
outVars  == << report >>
batchVars == << cfgVars, mainVars, siteVars, ctxVars, outVars >>
waitVars == << now, net, activeRequests, idleTimer, staticSiteTimer, timeout,
              wpc, wret, wctx, hist >>
fnVars   == << fnCall, fnRet >>
extVars  == << efn, extractors, gor, resultCh, epc, ek, allURLs, received, eret >>
vars     == << batchVars, waitVars, fnVars, extVars >>

\* the zero auditResult of make([]auditResult, n)
ZeroAuditResult == [ website |-> "", checks |-> auditChecks({}), auditErrs |-> << >> ]

NoUrl  == [ scheme |-> "", domain |-> "" ]
NoIdle == [ via |-> "none", err |-> "none" ]

\* a stopped time.Timer, and one armed at time t to fire d later
Stopped == [ armed |-> FALSE, at |-> 0 ]

NewTimer(t, d) == [ armed |-> TRUE, at |-> t + d ]

NoRet  == [ via |-> "none", err |-> "none", at |-> 0 ]
\* started, ended: the tracked requests the listener saw start and end during
\* the wait; endAt: when the last of them ended; lateStart: one started after
\* the select had been left; inFlight: the non-ignored requests in flight when
\* the call returned; fault: the browser failed the static branch's wait
NoHist == [ started |-> 0, ended |-> 0, endAt |-> 0, lateStart |-> FALSE,
            inFlight |-> 0, fault |-> FALSE ]

NoCall == [ fn |-> "none" ]

NotCalled == [ done |-> FALSE ]

Returned(value) == [ done |-> TRUE, value |-> value ]

\* writeResults has not been called
NoReport == << >>

\* a channel of capacity cap with nothing buffered
Chan(cap) == [ cap |-> cap, buf |-> << >> ]

NoExtractResult == [ websites |-> << >>, err |-> "none", name |-> "", cause |-> "none" ]

\* no call of extractWebsites is modelled
ExtParked ==
  /\ efn = "none"
  /\ extractors = << >>
  /\ gor = << >>
  /\ resultCh = Chan(0)
  /\ epc = "none"
  /\ ek = 0
  /\ allURLs = << >>
  /\ received = << >>
  /\ eret = NoExtractResult

\* no pure function is called on its own
FnParked ==
  /\ fnCall = NoCall
  /\ fnRet = NotCalled

\* the batch ctx has not been cancelled during the current call of runSingle
NotCancelled == "none"

\* no call of waitNetworkIdle is modelled in time
WaitParked ==
  /\ now = 0
  /\ net = << >>
  /\ activeRequests = << >>
  /\ idleTimer = Stopped
  /\ staticSiteTimer = Stopped
  /\ timeout = Stopped
  /\ wpc = "none"
  /\ wret = NoRet
  /\ wctx = "live"
  /\ hist = NoHist

\* main has parsed its flags; nothing else has run
BatchStart ==
  /\ a = NoAudit
  /\ websites = << >>
  /\ pc = "newAudit"
  /\ browser = "none"
  /\ i = 0
  /\ results = << >>
  /\ runErr = "nil"
  /\ step = "none"
  /\ result = ZeroAuditResult
  /\ page = NoPage
  /\ navUrl = NoUrl
  /\ idle = NoIdle
  /\ trace = << >>
  /\ siteCtx = "none"
  /\ batchCtx = "live"
  /\ cancelledAt = NotCancelled
  /\ windows = {}
  /\ report = NoReport

Init ==
  /\ checksStr \in BatchChecksStrs
  /\ important \in BOOLEAN
  /\ BatchStart
  /\ WaitParked
  /\ FnParked
  /\ ExtParked

\* ------------------------------------------------------------------- main
\* NewAudit with the error of newAudit ignored
NewAudit_ErrorIgnored ==
  /\ pc = "newAudit"
  /\ \E mkdirOk \in BOOLEAN :
       LET r == newAudit(checksStr, important, mkdirOk) IN
       /\ a' = r.audit
       /\ pc' = "extract"
  /\ UNCHANGED << extVars, fnVars, waitVars, outVars, cfgVars, websites, browser, i, results, runErr, siteVars, ctxVars >>

\* main: newAudit; log.Fatalf on error
NewAudit ==
  /\ pc = "newAudit"
  /\ \E mkdirOk \in BOOLEAN :
       LET r == newAudit(checksStr, important, mkdirOk) IN
       /\ a' = r.audit
       /\ pc' = IF r.err = "nil" THEN "extract" ELSE "fatal"
  /\ UNCHANGED << extVars, fnVars, waitVars, outVars, cfgVars, websites, browser, i, results, runErr, siteVars, ctxVars >>

\* main: extractWebsites hands over the website list
ExtractWebsites ==
  /\ pc = "extract"
  /\ websites' \in SiteLists
  /\ pc' = "run"
  /\ UNCHANGED << extVars, fnVars, waitVars, outVars, cfgVars, a, browser, i, results, runErr, siteVars, ctxVars >>

\* run with the return after "failed to open browser" left out
run_NoReturnOnLaunchError ==
  /\ pc = "run"
  /\ IF Len(websites) = 0
     THEN /\ runErr' = "no websites to audit"
          /\ pc' = "returned"
          /\ UNCHANGED << browser, i, results >>
     ELSE \E opened \in BOOLEAN :
            /\ runErr' = IF opened /\ batchCtx = "live" THEN runErr ELSE "failed to open browser"
            /\ browser' = IF opened /\ batchCtx = "live" THEN "running" ELSE "closed"
            /\ results' = [ k \in 1..Len(websites) |-> ZeroAuditResult ]
            /\ i' = 1
            /\ pc' = "loop"
  /\ UNCHANGED << extVars, fnVars, waitVars, outVars, cfgVars, a, websites, siteVars, ctxVars >>

\* run without the test of len(websites)
run_NoEmptyTest ==
  /\ pc = "run"
  /\ \E opened \in BOOLEAN :
       IF opened /\ batchCtx = "live"
       THEN /\ browser' = "running"
            /\ results' = [ k \in 1..Len(websites) |-> ZeroAuditResult ]
            /\ i' = 1
            /\ pc' = "loop"
            /\ runErr' = runErr
       ELSE /\ runErr' = "failed to open browser"
            /\ pc' = "returned"
            /\ browser' = "closed"
            /\ UNCHANGED << i, results >>
  /\ UNCHANGED << extVars, fnVars, waitVars, outVars, cfgVars, a, websites, siteVars, ctxVars >>

\* audit.run up to the site loop: the empty-list check, then the browser is
\* started by the first chromedp.Run (about:blank and a 1 s settle)
run ==
  /\ pc = "run"
  /\ IF Len(websites) = 0
     THEN /\ runErr' = "no websites to audit"
          /\ pc' = "returned"
          /\ UNCHANGED << browser, i, results >>
     ELSE \E opened \in BOOLEAN :
            IF opened /\ batchCtx = "live"
            THEN /\ browser' = "running"
                 /\ results' = [ k \in 1..Len(websites) |-> ZeroAuditResult ]
                 /\ i' = 1
                 /\ pc' = "loop"
                 /\ runErr' = runErr
            ELSE /\ runErr' = "failed to open browser"
                 /\ pc' = "returned"
                 /\ browser' = "closed"
                 /\ UNCHANGED << i, results >>
  /\ UNCHANGED << extVars, fnVars, waitVars, outVars, cfgVars, a, websites, siteVars, ctxVars >>

\* audit.run's loop head: results[i] = a.runSingle(browserCtx, website);
\* runSingle starts with its result and its window and timeout contexts
runLoop ==
  /\ pc = "loop"
  /\ i <= Len(websites)
  /\ pc' = "single"
  /\ result' = [ website |-> websites[i].domain, checks |-> a.checks, auditErrs |-> << >> ]
  /\ siteCtx' = IF batchCtx = "live" THEN "live" ELSE "canceled"
  /\ step' = "blankNav"
  /\ trace' = << >>
  /\ windows' = windows \cup {i}
  /\ UNCHANGED << extVars, fnVars, waitVars, outVars, cfgVars, a, websites, browser, i, results, runErr, page, navUrl, idle, batchCtx, cancelledAt >>

\* audit.run after the last site: return results, nil (deferred cancels run)
runReturn ==
  /\ pc = "loop"
  /\ i > Len(websites)
  /\ pc' = "returned"
  /\ browser' = "closed"
  /\ UNCHANGED << extVars, fnVars, waitVars, outVars, cfgVars, a, websites, i, results, runErr, siteVars, ctxVars >>


\* ----------------------------------------------------------------- csvSink
\* the columns of getEnabledChecks, in the order of its tests
CsvColumns ==
  << [ check |-> "secure",           header |-> "Secure" ],
     [ check |-> "lcp",              header |-> "LCP (ms)" ],
     [ check |-> "consoleErrs",      header |-> "Console Errors" ],
     [ check |-> "requestErrs",      header |-> "Request Errors" ],
     [ check |-> "missingHeaders",   header |-> "Missing Headers" ],
     [ check |-> "responsiveIssues", header |-> "Responsive Issues" ],
     [ check |-> "formIssues",       header |-> "Form Issues" ],
     [ check |-> "techStack",        header |-> "Detected Tech" ],
     [ check |-> "screenshot",       header |-> "Screenshot" ] >>

\* A cell's text is the concatenation of its pieces.
\* boolToEmoji: the cross mark for false, the check mark for true
boolToEmoji(ok) == IF ok THEN << "U+2705" >> ELSE << "U+274C" >>

\* the decimal digits of a natural number
RECURSIVE Digits(_)
Digits(n) ==
  IF n < 10 THEN << n >> ELSE Append(Digits(n \div 10), n % 10)

\* fmt.Sprint of checks.lcp.result
Sprint(n) == Digits(n)

\* strings.Join(elems, sep)
RECURSIVE Join(_, _)
Join(elems, sep) ==
  IF elems = << >> THEN << >>
  ELSE IF Len(elems) = 1 THEN << elems[1] >>
  ELSE << elems[1], sep >> \o Join(Tail(elems), sep)

\* the cell getEnabledChecks writes for a check
CellOf(c, checks) ==
  CASE c \in {"secure", "screenshot"} -> boolToEmoji(checks[c].result)
    [] c = "lcp"                     -> Sprint(checks[c].result)
    [] OTHER                         -> Join(checks[c].result, ";\n")

\* getEnabledChecks appending to both slices whether or not the check is
\* enabled
getEnabledChecks_AllColumns(checks) ==
  [ headers |-> [ k \in 1..Len(CsvColumns) |-> CsvColumns[k].header ],
    values  |-> [ k \in 1..Len(CsvColumns) |-> CellOf(CsvColumns[k].check, checks) ] ]

\* getEnabledChecks returns headers and values for enabled checks
getEnabledChecks(checks) ==
  LET IsEnabled(col) == checks[col.check].enabled
      cols == SelectSeq(CsvColumns, IsEnabled)
  IN  [ headers |-> [ k \in 1..Len(cols) |-> cols[k].header ],
        values  |-> [ k \in 1..Len(cols) |-> CellOf(cols[k].check, checks) ] ]

\* the header record of writeResults, from results[0].checks
HeaderRow(rs) ==
  << "Website" >> \o getEnabledChecks(rs[1].checks).headers \o << "Audit Errors" >>

\* the record of one result
DataRow(res) ==
  << << res.website >> >> \o getEnabledChecks(res.checks).values
    \o << Join(res.auditErrs, ";\n") >>

\* the records of a complete report
Records(rs) == << HeaderRow(rs) >> \o [ k \in 1..Len(rs) |-> DataRow(rs[k]) ]

\* main: csvSink.writeResults(audits) after audit.run returned without error:
\* os.Create fails ("failed to create file"), or the header record and one
\* record per result are written
WriteResults ==
  /\ pc = "returned"
  /\ runErr = "nil"
  /\ \/ /\ pc' = "writeFailed"
        /\ report' = NoReport
     \/ /\ pc' = "done"
        /\ report' = Records(results)
  /\ UNCHANGED << extVars, fnVars, waitVars, cfgVars, a, websites, browser, i, results, runErr, siteVars, ctxVars >>


\* -------------------------------------------------------------- runSingle
\* StepOrder with the in-page checks in the order of the report's columns
StepOrder_ColumnOrder ==
  << "blankNav", "blankSleep",
     "pageEnable", "injectLcp", "injectErr",
     "emulate",
     "netEnable", "clearCache", "clearCookies",
     "navigate", "waitBody", "idle", "staticReady", "settle",
     "checkpoint",
     "missingHeaders",
     "secure", "lcp", "consoleErrs", "requestErrs", "responsiveIssues",
     "formIssues", "techStack",
     "screenshot", "writeFile" >>

\* the steps of runSingle in program order
StepOrder ==
  << "blankNav", "blankSleep",                       \* open window, settle
     "pageEnable", "injectLcp", "injectErr",         \* inject scripts
     "emulate",                                      \* emulate mobile device
     "netEnable", "clearCache", "clearCookies",      \* clear cache and cookies
     "navigate", "waitBody", "idle", "staticReady", "settle",
     "checkpoint",                                   \* nr.Status test
     "missingHeaders",
     "secure", "lcp", "responsiveIssues", "consoleErrs", "requestErrs",
     "formIssues", "techStack",
     "screenshot", "writeFile" >>

StepIndex(s) == CHOOSE k \in 1..Len(StepOrder) : StepOrder[k] = s

\* the in-page evaluations of the "perform checks" block
EvalChecks ==
  { "secure", "lcp", "responsiveIssues", "consoleErrs", "requestErrs",
    "formIssues", "techStack" }

hasImportantIssues(res) ==
  \/ Len(res.checks["responsiveIssues"].result) > 0
  \/ Len(res.checks["formIssues"].result) > 0

\* techStackRuns without the important-mode test
techStackRuns_Always(aud, res) == TRUE

\* whether the tech-stack evaluation runs once its enabled test has passed
techStackRuns(aud, res) == ~aud.important \/ hasImportantIssues(res)

\* the scripts the injection block registers (errScriptNeeded_ConsoleOnly:
\* the error script under the consoleErrs flag alone)
lcpScriptNeeded(aud) == aud.checks["lcp"].enabled

errScriptNeeded_ConsoleOnly(aud) == aud.checks["consoleErrs"].enabled

errScriptNeeded(aud) ==
  aud.checks["consoleErrs"].enabled \/ aud.checks["requestErrs"].enabled

\* Guard with the console-errors evaluation under the injection block's test
\* (consoleErrs or requestErrs enabled) in place of its own enabled flag
Guard_ConsoleUnderScriptTest(s, aud, res, via) ==
  CASE s = "injectLcp"      -> lcpScriptNeeded(aud)
    [] s = "injectErr"      -> errScriptNeeded(aud)
    [] s = "staticReady"    -> via = "staticSiteTimer"
    [] s = "missingHeaders" -> aud.checks["missingHeaders"].enabled
    [] s = "techStack"      -> aud.checks["techStack"].enabled /\ techStackRuns(aud, res)
    [] s = "consoleErrs"    -> errScriptNeeded(aud)
    [] s \in EvalChecks \ {"techStack", "consoleErrs"} -> aud.checks[s].enabled
    [] s \in {"screenshot", "writeFile"} -> aud.checks["screenshot"].enabled
    [] OTHER -> TRUE

\* the condition under which runSingle carries out step s, given the audit
\* instance, the result so far and the branch the idle wait took
Guard(s, aud, res, via) ==
  CASE s = "injectLcp"      -> lcpScriptNeeded(aud)
    [] s = "injectErr"      -> errScriptNeeded(aud)
    [] s = "staticReady"    -> via = "staticSiteTimer"
    [] s = "missingHeaders" -> aud.checks["missingHeaders"].enabled
    [] s = "techStack"      -> aud.checks["techStack"].enabled /\ techStackRuns(aud, res)
    [] s \in EvalChecks \ {"techStack"} -> aud.checks[s].enabled
    [] s \in {"screenshot", "writeFile"} -> aud.checks["screenshot"].enabled
    [] OTHER -> TRUE

\* the first step from position k on whose condition holds; past the last
\* step runSingle returns its result
RECURSIVE FirstFrom(_, _, _, _)
FirstFrom(k, aud, res, via) ==
  IF k > Len(StepOrder) THEN "return"
  ELSE IF Guard(StepOrder[k], aud, res, via) THEN StepOrder[k]
  ELSE FirstFrom(k + 1, aud, res, via)

\* the step runSingle carries out after s
NextStep(s, res, via) == FirstFrom(StepIndex(s) + 1, a, res, via)

\* the message runSingle appends to auditErrs when step s fails
ErrMsg(s) ==
  CASE s = "blankNav"     -> "failed to initialise window"
    [] s = "blankSleep"   -> "failed to wait for window initialisation"
    [] s = "pageEnable"   -> "failed to enable page domain"
    [] s = "injectLcp"    -> "failed to inject LCP script"
    [] s = "injectErr"    -> "failed to inject error script"
    [] s = "emulate"      -> "failed to emulate mobile device"
    [] s = "netEnable"    -> "failed to enable network domain"
    [] s = "clearCache"   -> "failed to clear browser cache"
    [] s = "clearCookies" -> "failed to clear browser cookies"
    [] s = "navigate"     -> "failed to navigate"
    [] s = "waitBody"     -> "failed to wait for body"
    [] s = "idle"         -> "failed to wait for page to be idle"
    [] s = "staticReady"  -> "failed to wait for page to be idle"
    [] s = "settle"       -> "failed to wait for page to settle"
    [] s = "checkpoint"   -> "failed to navigate: HTTP Status"
    [] s = "secure"       -> "failed to evaluate security"
    [] s = "lcp"          -> "failed to evaluate LCP"
    [] s = "responsiveIssues" -> "failed to evaluate mobile responsiveness"
    [] s = "consoleErrs"  -> "failed to evaluate console errors"
    [] s = "requestErrs"  -> "failed to evaluate request errors"
    [] s = "formIssues"   -> "failed to evaluate form issues"
    [] s = "techStack"    -> "failed to detect tech stack"
    [] s = "screenshot"   -> "failed to capture screenshot"
    [] s = "writeFile"    -> "failed to write screenshot"
    [] OTHER              -> "error"

\* the context step s runs its browser round trip under
\* (the cache-clearing block is run on runSingle's ctx parameter)
CtxOf(s) ==
  IF s \in {"netEnable", "clearCache", "clearCookies"} THEN batchCtx ELSE siteCtx

\* result.auditErrs = append(result.auditErrs, msg)
AppendErr(res, msg) == [ res EXCEPT !.auditErrs = Append(@, msg) ]

\* step s is at hand and is carried out
Attempt(s) ==
  /\ pc = "single"
  /\ step = s
  /\ trace' = Append(trace, s)

\* Fail without the return that follows the append
Fail_NoReturn(s) ==
  /\ step' = FirstFrom(StepIndex(s) + 1, a, result, idle.via)
  /\ result' = AppendErr(result, ErrMsg(s))

\* step s failed: append to auditErrs and return result
Fail(s) ==
  /\ step' = "return"
  /\ result' = AppendErr(result, ErrMsg(s))

\* RoundTrip succeeding on a context that is done
RoundTrip_IgnoresContext(s) ==
  /\ Attempt(s)
  /\ \/ /\ step' = FirstFrom(StepIndex(s) + 1, a, result, idle.via)
        /\ result' = result
     \/ Fail(s)

\* a browser round trip with no result: it succeeds only on a live context,
\* and may fail on any
RoundTrip(s) ==
  /\ Attempt(s)
  /\ \/ /\ CtxOf(s) = "live"
        /\ step' = NextStep(s, result, idle.via)
        /\ result' = result
     \/ Fail(s)

\* open window with blank page and wait to initialise
BlankPage ==
  /\ \E s \in {"blankNav", "blankSleep"} : RoundTrip(s)
  /\ UNCHANGED << extVars, fnVars, waitVars, outVars, cfgVars, mainVars, page, navUrl, idle, ctxVars >>

\* enable page domain and inject the scripts the enabled checks need
InjectScripts ==
  /\ \E s \in {"pageEnable", "injectLcp", "injectErr"} : RoundTrip(s)
  /\ UNCHANGED << extVars, fnVars, waitVars, outVars, cfgVars, mainVars, page, navUrl, idle, ctxVars >>

\* emulate mobile device
EmulateDevice ==
  /\ RoundTrip("emulate")
  /\ UNCHANGED << extVars, fnVars, waitVars, outVars, cfgVars, mainVars, page, navUrl, idle, ctxVars >>

\* enable network domain, and clear cache and cookies
ClearCache ==
  /\ \E s \in {"netEnable", "clearCache", "clearCookies"} : RoundTrip(s)
  /\ UNCHANGED << extVars, fnVars, waitVars, outVars, cfgVars, mainVars, page, navUrl, idle, ctxVars >>

\* websiteScheme without the override for the secure check
websiteScheme_SiteScheme(aud, site) == site.scheme

\* the scheme of the target navigation
websiteScheme(aud, site) ==
  IF aud.checks["secure"].enabled THEN "http" ELSE site.scheme

\* chromedp.Navigate(websiteScheme + "://" + website.domain + "/")
Navigate ==
  /\ RoundTrip("navigate")
  /\ navUrl' = [ scheme |-> websiteScheme(a, websites[i]), domain |-> websites[i].domain ]
  /\ UNCHANGED << extVars, fnVars, waitVars, outVars, cfgVars, mainVars, page, idle, ctxVars >>

\* chromedp.WaitReady("body")
WaitBody ==
  /\ RoundTrip("waitBody")
  /\ UNCHANGED << extVars, fnVars, waitVars, outVars, cfgVars, mainVars, page, navUrl, idle, ctxVars >>

\* ctx.Err() of a context that is done
CtxErr(c) == IF c = "deadline" THEN "DeadlineExceeded" ELSE "Canceled"

\* idleErrIsFatal without the errors.Is(err, context.DeadlineExceeded) test
idleErrIsFatal_AnyError(err) == err # "nil"

\* runSingle's test of waitNetworkIdle's error:
\* errors.Is(err, context.DeadlineExceeded) is logged, anything else is returned
idleErrIsFatal(err) == err \notin {"nil", "DeadlineExceeded"}

\* what runSingle does with the error waitNetworkIdle returned
AfterIdle(err) ==
  IF idleErrIsFatal(err)
  THEN Fail("idle")
  ELSE /\ step' = "settle"
       /\ result' = result

\* waitNetworkIdle's select, seen from runSingle: on a live context one of the
\* three timers ends the wait, on a done context ctx.Done() does
IdleWait ==
  /\ Attempt("idle")
  /\ IF siteCtx = "live"
     THEN \/ /\ idle' = [ via |-> "idleTimer", err |-> "nil" ]
             /\ AfterIdle("nil")
          \/ /\ idle' = [ via |-> "staticSiteTimer", err |-> "pending" ]
             /\ step' = "staticReady"
             /\ result' = result
          \/ /\ idle' = [ via |-> "timeout", err |-> "DeadlineExceeded" ]
             /\ AfterIdle("DeadlineExceeded")
     ELSE /\ idle' = [ via |-> "ctxDone", err |-> CtxErr(siteCtx) ]
          /\ AfterIdle(CtxErr(siteCtx))
  /\ UNCHANGED << extVars, fnVars, waitVars, outVars, cfgVars, mainVars, page, navUrl, ctxVars >>

\* the static-site branch: return chromedp.WaitReady("body").Do(ctx)
StaticReady ==
  /\ Attempt("staticReady")
  /\ \/ /\ siteCtx = "live"
        /\ idle' = [ idle EXCEPT !.err = "nil" ]
        /\ AfterIdle("nil")
     \/ LET err == IF siteCtx = "live" THEN "other" ELSE CtxErr(siteCtx) IN
        /\ idle' = [ idle EXCEPT !.err = err ]
        /\ AfterIdle(err)
  /\ UNCHANGED << extVars, fnVars, waitVars, outVars, cfgVars, mainVars, page, navUrl, ctxVars >>

\* chromedp.Sleep(1 * time.Second) after the idle wait
Settle ==
  /\ RoundTrip("settle")
  /\ UNCHANGED << extVars, fnVars, waitVars, outVars, cfgVars, mainVars, page, navUrl, idle, ctxVars >>

\* statusFailed with > in place of >=
statusFailed_Strict(status) == status > 400

\* the main document request failed: nr.Status >= 400
statusFailed(status) == status >= 400

\* RunResponse has returned nr without error: the fatal-failure checkpoint
\* on nr.Status
Checkpoint ==
  /\ Attempt("checkpoint")
  /\ page' \in Pages
  /\ IF statusFailed(page'.status)
     THEN Fail("checkpoint")
     ELSE /\ step' = NextStep("checkpoint", result, idle.via)
          /\ result' = result
  /\ UNCHANGED << extVars, fnVars, waitVars, outVars, cfgVars, mainVars, navUrl, idle, ctxVars >>

\* result.checks.<c>.result = v
SetResult(res, c, v) == [ res EXCEPT !.checks[c].result = v ]

\* capture missing security headers
SecurityHeaders ==
  /\ Attempt("missingHeaders")
  /\ LET res == SetResult(result, "missingHeaders", checkSecurityHeaders(page.content.headers)) IN
       /\ result' = res
       /\ step' = NextStep("missingHeaders", res, idle.via)
  /\ UNCHANGED << extVars, fnVars, waitVars, outVars, cfgVars, mainVars, page, navUrl, idle, ctxVars >>

\* Evaluate with a failed evaluation recorded and the block going on
Evaluate_ContinueOnError ==
  /\ \E c \in EvalChecks :
       /\ Attempt(c)
       /\ \/ /\ siteCtx = "live"
             /\ LET res == SetResult(result, c, page.content[c]) IN
                  /\ result' = res
                  /\ step' = NextStep(c, res, idle.via)
          \/ /\ result' = AppendErr(result, ErrMsg(c))
             /\ step' = NextStep(c, result, idle.via)
  /\ UNCHANGED << extVars, fnVars, waitVars, outVars, cfgVars, mainVars, page, navUrl, idle, ctxVars >>

\* one chromedp.Evaluate of the "perform checks" block
Evaluate ==
  /\ \E c \in EvalChecks :
       /\ Attempt(c)
       /\ \/ /\ siteCtx = "live"
             /\ LET res == SetResult(result, c, page.content[c]) IN
                  /\ result' = res
                  /\ step' = NextStep(c, res, idle.via)
          \/ Fail(c)
  /\ UNCHANGED << extVars, fnVars, waitVars, outVars, cfgVars, mainVars, page, navUrl, idle, ctxVars >>

\* captureScreenshot: chromedp.FullScreenshot
CaptureScreenshot ==
  /\ RoundTrip("screenshot")
  /\ UNCHANGED << extVars, fnVars, waitVars, outVars, cfgVars, mainVars, page, navUrl, idle, ctxVars >>

\* WriteScreenshot with captureScreenshot returning true beside its error
WriteScreenshot_TrueOnError ==
  /\ Attempt("writeFile")
  /\ \/ /\ result' = SetResult(result, "screenshot", TRUE)
        /\ step' = "return"
     \/ /\ result' = AppendErr(SetResult(result, "screenshot", TRUE), ErrMsg("writeFile"))
        /\ step' = "return"
  /\ UNCHANGED << extVars, fnVars, waitVars, outVars, cfgVars, mainVars, page, navUrl, idle, ctxVars >>

\* captureScreenshot: os.WriteFile, then return true, nil
WriteScreenshot ==
  /\ Attempt("writeFile")
  /\ \/ /\ result' = SetResult(result, "screenshot", TRUE)
        /\ step' = "return"
     \/ Fail("writeFile")
  /\ UNCHANGED << extVars, fnVars, waitVars, outVars, cfgVars, mainVars, page, navUrl, idle, ctxVars >>

\* StoreResult appending to the slice that make() has already sized
StoreResult_Append(rs, k, r) == Append(rs, r)

\* results[i] = <the auditResult runSingle returned>
StoreResult(rs, k, r) == [ rs EXCEPT ![k] = r ]

\* ReturnSingle with runSingle having written through to a.checks, as if
\* result.checks shared the audit instance's checks
ReturnSingle_SharedChecks ==
  /\ pc = "single"
  /\ step = "return"
  /\ results' = StoreResult(results, i, result)
  /\ a' = [ a EXCEPT !.checks = result.checks ]
  /\ i' = i + 1
  /\ pc' = "loop"
  /\ step' = "none"
  /\ result' = ZeroAuditResult
  /\ page' = NoPage
  /\ navUrl' = NoUrl
  /\ idle' = NoIdle
  /\ trace' = << >>
  /\ siteCtx' = "none"
  /\ windows' = windows \ {i}
  /\ cancelledAt' = NotCancelled
  /\ UNCHANGED << extVars, fnVars, waitVars, outVars, cfgVars, websites, browser, runErr, batchCtx >>

\* ReturnSingle with run giving up at the first site that recorded an error
ReturnSingle_AbortOnSiteError ==
  /\ pc = "single"
  /\ step = "return"
  /\ results' = StoreResult(results, i, result)
  /\ i' = i + 1
  /\ pc' = IF result.auditErrs # << >> THEN "returned" ELSE "loop"
  /\ runErr' = IF result.auditErrs # << >> THEN "failed to audit website" ELSE runErr
  /\ step' = "none"
  /\ result' = ZeroAuditResult
  /\ page' = NoPage
  /\ navUrl' = NoUrl
  /\ idle' = NoIdle
  /\ trace' = << >>
  /\ siteCtx' = "none"
  /\ windows' = windows \ {i}
  /\ cancelledAt' = NotCancelled
  /\ UNCHANGED << extVars, fnVars, waitVars, outVars, cfgVars, a, websites, browser, batchCtx >>

\* ReturnSingle without the deferred cancelWindow and cancelTimeout
ReturnSingle_WindowKept ==
  /\ pc = "single"
  /\ step = "return"
  /\ results' = StoreResult(results, i, result)
  /\ i' = i + 1
  /\ pc' = "loop"
  /\ step' = "none"
  /\ result' = ZeroAuditResult
  /\ page' = NoPage
  /\ navUrl' = NoUrl
  /\ idle' = NoIdle
  /\ trace' = << >>
  /\ cancelledAt' = NotCancelled
  /\ UNCHANGED << extVars, fnVars, waitVars, outVars, cfgVars, a, websites, browser, runErr, batchCtx, siteCtx, windows >>

\* runSingle returns: audit.run stores the result at index i and goes on to
\* the next site; the deferred cancels end the site's contexts
ReturnSingle ==
  /\ pc = "single"
  /\ step = "return"
  /\ results' = StoreResult(results, i, result)
  /\ i' = i + 1
  /\ pc' = "loop"
  /\ step' = "none"
  /\ result' = ZeroAuditResult
  /\ page' = NoPage
  /\ navUrl' = NoUrl
  /\ idle' = NoIdle
  /\ trace' = << >>
  /\ siteCtx' = "none"
  /\ windows' = windows \ {i}
  /\ cancelledAt' = NotCancelled
  /\ UNCHANGED << extVars, fnVars, waitVars, outVars, cfgVars, a, websites, browser, runErr, batchCtx >>

\* ------------------------------------------------------------ environment
\* The steps at which a passed deadline changes what runSingle does next: the
\* cache-clearing block, which does not run under timeoutCtx, and the idle
\* wait, whose DeadlineExceeded is logged and not returned. At every other
\* step a done context is one of the failures RoundTrip allows, after which
\* runSingle returns at once.
DeadlineSteps == { "netEnable", "clearCache", "clearCookies", "idle", "staticReady" }

\* the 60 s deadline of timeoutCtx passes while the site is being audited
DeadlineExpires ==
  /\ pc = "single"
  /\ step \in DeadlineSteps
  /\ siteCtx = "live"
  /\ siteCtx' = "deadline"
  /\ UNCHANGED << extVars, fnVars, waitVars, outVars, cfgVars, mainVars, siteVars, batchCtx, cancelledAt, windows >>

\* the steps that are not browser round trips: the test of nr.Status, the
\* header comparison and os.WriteFile
LocalSteps == { "checkpoint", "missingHeaders", "writeFile" }

\* what runSingle has at hand at step s: a browser round trip, a local
\* computation, or its return
Kind(s) ==
  IF s = "return" THEN "return"
  ELSE IF s \in LocalSteps THEN "local"
  ELSE "roundTrip"

\* CancelBatch with the site's contexts not derived from ctx
CancelBatch_NotPropagated ==
  /\ pc \in {"run", "loop", "single"}
  /\ batchCtx = "live"
  /\ batchCtx' = "canceled"
  /\ siteCtx' = siteCtx
  /\ cancelledAt' = IF pc = "single" THEN Kind(step) ELSE NotCancelled
  /\ UNCHANGED << extVars, fnVars, waitVars, outVars, cfgVars, mainVars, siteVars, windows >>

\* the ctx given to audit.run is cancelled; windowCtx and timeoutCtx are its
\* children
CancelBatch ==
  /\ pc \in {"run", "loop", "single"}
  /\ batchCtx = "live"
  /\ batchCtx' = "canceled"
  /\ siteCtx' = IF siteCtx = "live" THEN "canceled" ELSE siteCtx
  /\ cancelledAt' = IF pc = "single" THEN Kind(step) ELSE NotCancelled
  /\ UNCHANGED << extVars, fnVars, waitVars, outVars, cfgVars, mainVars, siteVars, windows >>

Next ==
  \/ NewAudit
  \/ ExtractWebsites
  \/ run
  \/ runLoop
  \/ runReturn
  \/ BlankPage
  \/ InjectScripts
  \/ EmulateDevice
  \/ ClearCache
  \/ Navigate
  \/ WaitBody
  \/ IdleWait
  \/ StaticReady
  \/ Settle
  \/ Checkpoint
  \/ SecurityHeaders
  \/ Evaluate
  \/ CaptureScreenshot
  \/ WriteScreenshot
  \/ ReturnSingle
  \/ DeadlineExpires
  \/ CancelBatch

Spec == Init /\ [][Next]_vars

\* main as it is built: audit.run is handed context.Background(), which is
\* never cancelled, and its results go to csvSink.writeResults
NextMain ==
  \/ NewAudit
  \/ ExtractWebsites
  \/ run
  \/ runLoop
  \/ runReturn
  \/ WriteResults
  \/ BlankPage
  \/ InjectScripts
  \/ EmulateDevice
  \/ ClearCache
  \/ Navigate
  \/ WaitBody
  \/ IdleWait
  \/ StaticReady
  \/ Settle
  \/ Checkpoint
  \/ SecurityHeaders
  \/ Evaluate
  \/ CaptureScreenshot
  \/ WriteScreenshot
  \/ ReturnSingle
  \/ DeadlineExpires

SpecMain == Init /\ [][NextMain]_vars


\* -------------------------------------------------------- waitNetworkIdle
\* most requests the page makes during one call
MaxRequests == 2

\* a.waitNetworkIdle(500*time.Millisecond, 10*time.Second), in milliseconds
idleTime == 500

maxWait == 10000

\* time.NewTimer(1 * time.Second): short timer for static site detection
staticSiteDelay == 1000

\* the instants at which the model looks at the clock
TimeStep == idleTime

\* the clock stops one quiet period after maxWait
Horizon == maxWait + idleTime

RequestIDs == 1..MaxRequests

\* the URLs requests are made for
Urls ==
  { << "h", "t", "t", "p", "s", ":", "/", "/", "e", "x", "a", "m", "p", "l", "e", ".", "c", "o", "m", "/", "a", "p", "p", ".", "j", "s" >>,
    << "h", "t", "t", "p", "s", ":", "/", "/", "w", "w", "w", ".", "G", "o", "o", "g", "l", "e", "-", "A", "n", "a", "l", "y", "t", "i", "c", "s", ".", "c", "o", "m", "/", "c", "o", "l", "l", "e", "c", "t" >>,
    << "d", "a", "t", "a", ":", "i", "m", "a", "g", "e", "/", "p", "n", "g", ";", "b", "a", "s", "e", "6", "4", ",", "A", "A", "A", "A" >> }

NoUrlYet == << >>

\* the page's requests when the call begins: not yet made, or sent before the
\* listener was registered and still in flight
NetStates ==
  [ RequestIDs -> { [ state |-> "new", url |-> NoUrlYet ] }
                  \cup { [ state |-> "sent", url |-> u ] : u \in Urls } ]

\* the timer's channel holds a value (a stopped or reset timer's never does)
Ready(tm, t) == tm.armed /\ t >= tm.at

\* the state the listener closes over
Detector == [ activeRequests |-> activeRequests, idleTimer |-> idleTimer,
              staticSiteTimer |-> staticSiteTimer ]

\* tracked without strings.ToLower
tracked_CaseSensitive(url) == ~isIgnoredResource(url, ignoredIdlePatterns)

\* whether the listener tracks a request for this URL
tracked(url) == ~isIgnoredResource(ToLower(url), ignoredIdlePatterns)

\* delete(activeRequests, id)
Delete(m, id) == [ k \in (DOMAIN m) \ {id} |-> m[k] ]

\* activeRequests[id] = url
Put(m, id, url) == [ k \in (DOMAIN m) \cup {id} |-> IF k = id THEN url ELSE m[k] ]

\* onRequestWillBeSent without idleTimer.Stop()
onRequestWillBeSent_IdleTimerKept(d, id, url) ==
  IF tracked(url)
  THEN [ d EXCEPT !.staticSiteTimer = Stopped,
                  !.activeRequests = Put(@, id, url) ]
  ELSE d

\* onRequestWillBeSent without staticSiteTimer.Stop()
onRequestWillBeSent_StaticTimerKept(d, id, url) ==
  IF tracked(url)
  THEN [ d EXCEPT !.activeRequests = Put(@, id, url),
                  !.idleTimer = Stopped ]
  ELSE d

\* case *network.EventRequestWillBeSent
onRequestWillBeSent(d, id, url) ==
  IF tracked(url)
  THEN [ d EXCEPT !.staticSiteTimer = Stopped,
                  !.activeRequests = Put(@, id, url),
                  !.idleTimer = Stopped ]
  ELSE d

\* onLoadingEnded without idleTimer.Reset(idleTime)
onLoadingEnded_NoReset(d, id, t) ==
  IF id \in DOMAIN d.activeRequests
  THEN [ d EXCEPT !.activeRequests = Delete(d.activeRequests, id) ]
  ELSE d

\* onLoadingEnded with the test of len(activeRequests) outside the test of
\* the request id
onLoadingEnded_ResetUntracked(d, id, t) ==
  LET rest == IF id \in DOMAIN d.activeRequests
              THEN Delete(d.activeRequests, id) ELSE d.activeRequests IN
  [ d EXCEPT !.activeRequests = rest,
             !.idleTimer = IF DOMAIN rest = {} THEN NewTimer(t, idleTime) ELSE @ ]

\* case *network.EventLoadingFinished, case *network.EventLoadingFailed
onLoadingEnded(d, id, t) ==
  IF id \in DOMAIN d.activeRequests
  THEN LET rest == Delete(d.activeRequests, id) IN
       [ d EXCEPT !.activeRequests = rest,
                  !.idleTimer = IF DOMAIN rest = {} THEN NewTimer(t, idleTime) ELSE @ ]
  ELSE d

\* the listener's writes reach the variables
SetDetector(d) ==
  /\ activeRequests' = d.activeRequests
  /\ idleTimer' = d.idleTimer
  /\ staticSiteTimer' = d.staticSiteTimer

\* chromedp.ListenTarget(ctx, ...): the listener runs from its registration
\* until ctx is done (it is not removed when the call returns)
Listening == wpc \in {"select", "staticReady", "returned"} /\ wctx = "live"

Waiting == wpc \in {"select", "staticReady"}

\* WaitBegin with the static-site timer stopped at once, like the idle timer
WaitBegin_StaticTimerStopped ==
  /\ wpc = "call"
  /\ activeRequests' = << >>
  /\ idleTimer' = Stopped
  /\ staticSiteTimer' = Stopped
  /\ timeout' = NewTimer(now, maxWait)
  /\ wpc' = "select"
  /\ UNCHANGED << extVars, fnVars, batchVars, now, net, wret, wctx, hist >>

\* waitNetworkIdle begins: the map, the three timers and the listener
WaitBegin ==
  /\ wpc = "call"
  /\ activeRequests' = << >>
  /\ idleTimer' = Stopped
  /\ staticSiteTimer' = NewTimer(now, staticSiteDelay)
  /\ timeout' = NewTimer(now, maxWait)
  /\ wpc' = "select"
  /\ UNCHANGED << extVars, fnVars, batchVars, now, net, wret, wctx, hist >>

\* the page sends a request and the listener handles the event
RequestWillBeSent ==
  /\ Listening
  /\ \E id \in RequestIDs, url \in Urls :
       /\ net[id].state = "new"
       /\ net' = [ net EXCEPT ![id] = [ state |-> "sent", url |-> url ] ]
       /\ SetDetector(onRequestWillBeSent(Detector, id, url))
       /\ hist' = IF Waiting /\ tracked(url)
                  THEN [ hist EXCEPT !.started = @ + 1,
                                     !.lateStart = @ \/ wpc = "staticReady" ]
                  ELSE hist
  /\ UNCHANGED << extVars, fnVars, batchVars, now, timeout, wpc, wret, wctx >>

\* what the history keeps of a finished or failed request
EndedHist(id) ==
  IF Waiting /\ id \in DOMAIN activeRequests
  THEN [ hist EXCEPT !.ended = @ + 1, !.endAt = now ]
  ELSE hist

\* a request finishes and the listener handles the event
LoadingFinished ==
  /\ Listening
  /\ \E id \in RequestIDs :
       /\ net[id].state = "sent"
       /\ net' = [ net EXCEPT ![id] = [ state |-> "finished", url |-> NoUrlYet ] ]
       /\ SetDetector(onLoadingEnded(Detector, id, now))
       /\ hist' = EndedHist(id)
  /\ UNCHANGED << extVars, fnVars, batchVars, now, timeout, wpc, wret, wctx >>

\* a request fails and the listener handles the event
LoadingFailed ==
  /\ Listening
  /\ \E id \in RequestIDs :
       /\ net[id].state = "sent"
       /\ net' = [ net EXCEPT ![id] = [ state |-> "failed", url |-> NoUrlYet ] ]
       /\ SetDetector(onLoadingEnded(Detector, id, now))
       /\ hist' = EndedHist(id)
  /\ UNCHANGED << extVars, fnVars, batchVars, now, timeout, wpc, wret, wctx >>

\* the non-ignored requests in flight
InFlight == { id \in RequestIDs : net[id].state = "sent" /\ tracked(net[id].url) }

\* the call returns err through the branch via; the deferred timeout.Stop(),
\* idleTimer.Stop(), staticSiteTimer.Stop() run
Return(via, err) ==
  /\ wpc' = "returned"
  /\ wret' = [ via |-> via, err |-> err, at |-> now ]
  /\ hist' = [ hist EXCEPT !.inFlight = Cardinality(InFlight),
                           !.fault = (err = "other") ]
  /\ idleTimer' = Stopped
  /\ staticSiteTimer' = Stopped
  /\ timeout' = Stopped

\* some case of the select can proceed
SelectReady ==
  \/ Ready(idleTimer, now)
  \/ Ready(staticSiteTimer, now)
  \/ Ready(timeout, now)
  \/ wctx # "live"

\* the select: one of the cases that can proceed
Select ==
  /\ wpc = "select"
  /\ \/ /\ Ready(idleTimer, now)
        /\ Return("idleTimer", "nil")
     \/ /\ Ready(staticSiteTimer, now)
        /\ wpc' = "staticReady"
        /\ wret' = [ via |-> "staticSiteTimer", err |-> "pending", at |-> now ]
        /\ UNCHANGED << idleTimer, staticSiteTimer, timeout, hist >>
     \/ /\ Ready(timeout, now)
        /\ Return("timeout", "DeadlineExceeded")
     \/ /\ wctx # "live"
        /\ Return("ctxDone", CtxErr(wctx))
  /\ UNCHANGED << extVars, fnVars, batchVars, now, net, activeRequests, wctx >>

\* the static branch's chromedp.WaitReady("body") returns: nil once the body
\* is there, ctx.Err() on a done context, or the browser's error
StaticWaitReady ==
  /\ wpc = "staticReady"
  /\ \/ /\ wctx = "live"
        /\ Return("staticSiteTimer", "nil")
     \/ /\ wctx # "live"
        /\ Return("staticSiteTimer", CtxErr(wctx))
     \/ /\ wctx = "live"
        /\ Return("staticSiteTimer", "other")
  /\ UNCHANGED << extVars, fnVars, batchVars, now, net, activeRequests, wctx >>

\* time passes; a select that can proceed does so first
Tick ==
  /\ Waiting
  /\ ~(wpc = "select" /\ SelectReady)
  /\ now + TimeStep <= Horizon
  /\ now' = now + TimeStep
  /\ UNCHANGED << extVars, fnVars, batchVars, net, activeRequests, idleTimer, staticSiteTimer,
                  timeout, wpc, wret, wctx, hist >>

\* the call's context ends: the site's deadline passes, or it is cancelled
ContextDone ==
  /\ Waiting
  /\ wctx = "live"
  /\ wctx' \in {"deadline", "canceled"}
  /\ UNCHANGED << extVars, fnVars, batchVars, now, net, activeRequests, idleTimer, staticSiteTimer,
                  timeout, wpc, wret, hist >>

InitIdle ==
  /\ checksStr = << >>
  /\ important = FALSE
  /\ BatchStart
  /\ now = 0
  /\ net \in NetStates
  /\ activeRequests = << >>
  /\ idleTimer = Stopped
  /\ staticSiteTimer = Stopped
  /\ timeout = Stopped
  /\ wpc = "call"
  /\ wret = NoRet
  /\ wctx = "live"
  /\ hist = NoHist
  /\ FnParked
  /\ ExtParked

NextIdle ==
  \/ WaitBegin
  \/ RequestWillBeSent
  \/ LoadingFinished
  \/ LoadingFailed
  \/ Select
  \/ StaticWaitReady
  \/ Tick
  \/ ContextDone

SpecIdle == InitIdle /\ [][NextIdle]_vars


\* ---------------------------------------------------------------- website
LowerLetters ==
  { "a", "b", "c", "d", "e", "f", "g", "h", "i", "j", "k", "l", "m",
    "n", "o", "p", "q", "r", "s", "t", "u", "v", "w", "x", "y", "z" }

DigitChars == { "0", "1", "2", "3", "4", "5", "6", "7", "8", "9" }

IsLetter(c) == LowerChar(c) \in LowerLetters

\* the part of str before the first ch, or str when ch does not occur
RECURSIVE Before(_, _)
Before(str, ch) ==
  IF str = << >> \/ Head(str) = ch THEN << >>
  ELSE << Head(str) >> \o Before(Tail(str), ch)

\* the part of str after the last ch, or str when ch does not occur
RECURSIVE AfterLast(_, _)
AfterLast(str, ch) ==
  IF str = << >> THEN << >>
  ELSE IF str[Len(str)] = ch THEN << >>
  ELSE AfterLast(SubSeq(str, 1, Len(str) - 1), ch) \o << str[Len(str)] >>

\* net/url getScheme: (scheme, rest, err) of "scheme:rest"
RECURSIVE getScheme(_, _)
getScheme(raw, k) ==
  LET none == [ scheme |-> << >>, rest |-> raw, err |-> "nil" ] IN
  IF k > Len(raw) THEN none
  ELSE IF IsLetter(raw[k]) THEN getScheme(raw, k + 1)
  ELSE IF raw[k] \in DigitChars \cup { "+", "-", "." }
       THEN IF k = 1 THEN none ELSE getScheme(raw, k + 1)
  ELSE IF raw[k] = ":"
       THEN IF k = 1
            THEN [ scheme |-> << >>, rest |-> << >>, err |-> "missing protocol scheme" ]
            ELSE [ scheme |-> SubSeq(raw, 1, k - 1), rest |-> SubSeq(raw, k + 1, Len(raw)),
                   err |-> "nil" ]
  ELSE none

\* net/url parseAuthority and parseHost: the host (with its port) of an
\* authority, invalid when it holds a blank or its port is not a number
HostOf(authority) ==
  LET host == AfterLast(authority, "@")
      port == IF \E k \in 1..Len(host) : host[k] = ":" THEN AfterLast(host, ":") ELSE << >>
  IN  IF \E k \in 1..Len(host) : host[k] = " "
      THEN [ host |-> << >>, err |-> "invalid character in host name" ]
      ELSE IF \E k \in 1..Len(port) : port[k] \notin DigitChars
      THEN [ host |-> << >>, err |-> "invalid port" ]
      ELSE [ host |-> host, err |-> "nil" ]

\* url.Parse(rawURL), as far as newWebsite reads it: Scheme and Host
Parse(rawURL) ==
  LET s      == getScheme(Before(rawURL, "#"), 1)
      scheme == ToLower(s.scheme)
      rest   == Before(s.rest, "?")
      noHost == [ Scheme |-> scheme, Host |-> << >>, err |-> "nil" ]
  IN  IF s.err # "nil" THEN [ Scheme |-> << >>, Host |-> << >>, err |-> s.err ]
      ELSE IF ~HasPrefix(rest, << "/" >>)
      THEN IF scheme = << >> /\ (\E k \in 1..Len(Before(rest, "/")) : rest[k] = ":")
           THEN [ Scheme |-> << >>, Host |-> << >>,
                  err |-> "first path segment in URL cannot contain colon" ]
           ELSE noHost
      ELSE IF HasPrefix(rest, << "/", "/" >>)
              /\ (scheme # << >> \/ ~HasPrefix(rest, << "/", "/", "/" >>))
      THEN LET h == HostOf(Before(SubSeq(rest, 3, Len(rest)), "/")) IN
           IF h.err # "nil" THEN [ Scheme |-> << >>, Host |-> << >>, err |-> h.err ]
           ELSE [ Scheme |-> scheme, Host |-> h.host, err |-> "nil" ]
      ELSE noHost

NoWebsite == [ originalURL |-> << >>, scheme |-> << >>, domain |-> << >> ]

\* NewWebsite with the host kept as written
NewWebsite_HostAsWritten(rawURL) ==
  LET parsed == Parse(rawURL) IN
  IF parsed.err # "nil" THEN [ website |-> NoWebsite, err |-> "invalid URL" ]
  ELSE IF parsed.Host = << >> THEN [ website |-> NoWebsite, err |-> "URL missing host" ]
  ELSE [ website |-> [ originalURL |-> rawURL, scheme |-> parsed.Scheme,
                       domain |-> parsed.Host ],
         err |-> "nil" ]

\* NewWebsite creates a new Website instance
NewWebsite(rawURL) ==
  LET parsed == Parse(rawURL) IN
  IF parsed.err # "nil" THEN [ website |-> NoWebsite, err |-> "invalid URL" ]
  ELSE IF parsed.Host = << >> THEN [ website |-> NoWebsite, err |-> "URL missing host" ]
  ELSE [ website |-> [ originalURL |-> rawURL, scheme |-> parsed.Scheme,
                       domain |-> ToLower(parsed.Host) ],
         err |-> "nil" ]

\* patterns to ignore when filtering business websites
ignoredBusinessPatterns ==
  << << "f", "a", "c", "e", "b", "o", "o", "k", ".", "c", "o", "m" >>,
     << "i", "n", "s", "t", "a", "g", "r", "a", "m", ".", "c", "o", "m" >>,
     << "t", "w", "i", "t", "t", "e", "r", ".", "c", "o", "m" >>,
     << "l", "i", "n", "k", "e", "d", "i", "n", ".", "c", "o", "m" >>,
     << "b", "o", "o", "k", "s", "y", ".", "c", "o", "m" >>,
     << "t", "r", "e", "a", "t", "w", "e", "l", "l", ".", "c", "o", ".", "u", "k" >>,
     << "f", "r", "e", "s", "h", "a", ".", "c", "o", "m" >>,
     << "y", "e", "l", "p", ".", "c", "o", "m" >>,
     << "y", "e", "l", "p", ".", "c", "o", ".", "u", "k" >>,
     << "y", "e", "l", "l", ".", "c", "o", "m" >>,
     << "t", "r", "i", "p", "a", "d", "v", "i", "s", "o", "r", ".", "c", "o", "m" >>,
     << "b", "o", "o", "t", "s", ".", "c", "o", "m" >>,
     << "s", "u", "p", "e", "r", "d", "r", "u", "g", ".", "c", "o", "m" >>,
     << "d", "i", "r", "e", "c", "t", "o", "r", "y" >>,
     << "g", "o", "o", "g", "l", "e", ".", "c", "o", "m" >>,
     << "m", "a", "p", "s", ".", "g", "o", "o", "g", "l", "e", ".", "c", "o", "m" >>,
     << "b", "i", "z", "m", "a", "p", "g", "o" >> >>

\* w.isIgnored(ignoredPatterns)
isIgnored(w, ignoredPatterns) == isIgnoredResource(w.domain, ignoredPatterns)

\* the loop of FilterWebsites from the k-th raw URL on
RECURSIVE FilterFrom(_, _, _, _)
FilterFrom(rawURLs, k, sites, seen) ==
  IF k > Len(rawURLs) THEN sites
  ELSE IF rawURLs[k] = << >> THEN FilterFrom(rawURLs, k + 1, sites, seen)
  ELSE LET nw == NewWebsite(rawURLs[k]) IN
       IF nw.err # "nil" THEN FilterFrom(rawURLs, k + 1, sites, seen)
       ELSE IF nw.website.domain \in seen \/ isIgnored(nw.website, ignoredBusinessPatterns)
       THEN FilterFrom(rawURLs, k + 1, sites, seen)
       ELSE FilterFrom(rawURLs, k + 1, Append(sites, nw.website),
                       seen \cup { nw.website.domain })

\* FilterWebsites converts raw URLs to websites and filters out
\* duplicates/ignored domains
FilterWebsites(rawURLs) == FilterFrom(rawURLs, 1, << >>, {})

\* ------------------------------------------------- pure functions, called
\* most tokens in a checks string
MaxTokens == 2

\* resource strings
DataImageUrl == << "d", "a", "t", "a", ":", "i", "m", "a", "g", "e", "/", "p", "n", "g", ";", "b", "a", "s", "e", "6", "4", ",", "A", "A", "A", "A" >>

BlobUrl == << "b", "l", "o", "b", ":", "h", "t", "t", "p", "s", ":", "/", "/", "x", "/", "y" >>

AnalyticsUrl == << "h", "t", "t", "p", "s", ":", "/", "/", "w", "w", "w", ".", "g", "o", "o", "g", "l", "e", "-", "a", "n", "a", "l", "y", "t", "i", "c", "s", ".", "c", "o", "m", "/", "c", "o", "l", "l", "e", "c", "t" >>

AppJsUrl == << "h", "t", "t", "p", "s", ":", "/", "/", "e", "x", "a", "m", "p", "l", "e", ".", "c", "o", "m", "/", "a", "p", "p", ".", "j", "s" >>

\* the resources isIgnoredResource is called with
Resources ==
  { DataImageUrl, BlobUrl, AnalyticsUrl, AppJsUrl,
    << "h", "t", "t", "p", "s", ":", "/", "/", "x", "/", "b", "l", "o", "b", ":", "y" >>,
    << "D", "A", "T", "A", ":", "t", "e", "x", "t", "/", "p", "l", "a", "i", "n", ",", "x" >>,
    << "h", "t", "t", "p", "s", ":", "/", "/", "e", "x", "a", "m", "p", "l", "e", ".", "c", "o", "m", "/", "A", "n", "a", "l", "y", "t", "i", "c", "s", ".", "j", "s" >>,
    << "h", "t", "t", "p", "s", ":", "/", "/", "c", "d", "n", ".", "e", "x", "a", "m", "p", "l", "e", ".", "c", "o", "m", "/", "t", "e", "l", "e", "m", "e", "t", "r", "y", "/", "v", "1" >>,
    << >>,
    << "d", "a", "t", "a" >>,
    << "h", "t", "t", "p", "s", ":", "/", "/", "e", "x", "a", "m", "p", "l", "e", ".", "c", "o", "m", "/", "f", "a", "v", "i", "c", "o", "n", ".", "i", "c", "o" >> }

\* the pattern lists it is called with
PatternLists ==
  { ignoredIdlePatterns,
    << >>,
    << << "e", "x", "a", "m", "p", "l", "e", ".", "c", "o", "m" >> >>,
    << << "x", "/", "y" >>, << >> >> }

\* most raw URLs in one call of FilterWebsites
MaxUrls == 3

\* the raw URLs the extractors hand over
RawUrlPool ==
  { << "h", "t", "t", "p", "s", ":", "/", "/", "E", "x", "a", "m", "p", "l", "e", ".", "c", "o", "m", "/" >>,
    << "h", "t", "t", "p", ":", "/", "/", "e", "x", "a", "m", "p", "l", "e", ".", "c", "o", "m", "/", "a", "b", "o", "u", "t" >>,
    << "h", "t", "t", "p", "s", ":", "/", "/", "w", "w", "w", ".", "F", "a", "c", "e", "b", "o", "o", "k", ".", "c", "o", "m", "/", "s", "h", "o", "p" >>,
    << "e", "x", "a", "m", "p", "l", "e", ".", "o", "r", "g", "/", "c", "o", "n", "t", "a", "c", "t" >>,
    << >>,
    << "h", "t", "t", "p", ":", "/", "/", "e", "x", "a", " ", "m", "p", "l", "e", ".", "c", "o", "m", "/" >>,
    << "H", "T", "T", "P", "S", ":", "/", "/", "b", ".", "c", "o" >>,
    << "h", "t", "t", "p", ":", "/", "/", "d", "a", "t", "a", ":", "8", "0", "/", "x" >> }

RECURSIVE RawUrlLists(_)
RawUrlLists(n) ==
  IF n = 0 THEN { << >> }
  ELSE LET shorter == RawUrlLists(n - 1) IN
       shorter \cup { Append(us, u) : us \in { x \in shorter : Len(x) = n - 1 }, u \in RawUrlPool }

\* the header names responses carry
HeaderKeys ==
  { "Content-Security-Policy", "Strict-Transport-Security", "X-Content-Type-Options",
    "X-Frame-Options", "Permissions-Policy", "Referrer-Policy",
    "content-security-policy", "strict-transport-security", "x-frame-options",
    "X-FRAME-OPTIONS", "Server" }

\* the texts between the commas of a checks string
TokenNames ==
  { "security", "lcp", "console", "request", "headers", "mobile", "form", "tech",
    "screenshot", "bogus", "LCP", "" }

TokenPool ==
  { Token(0, n, 0) : n \in TokenNames }
    \cup { Token(1, n, 0) : n \in { "lcp", "tech", "" } }
    \cup { Token(0, n, 1) : n \in { "lcp", "tech", "" } }

RECURSIVE TokenSeqs(_)
TokenSeqs(n) ==
  IF n = 0 THEN { << >> }
  ELSE LET shorter == TokenSeqs(n - 1) IN
       shorter \cup { Append(ts, t) : ts \in { x \in shorter : Len(x) = n - 1 }, t \in TokenPool }

\* the checks strings newAudit is called with; the one token with no text and
\* no blanks is the empty string, which is << >>
ChecksStrs == TokenSeqs(MaxTokens) \ { << Token(0, "", 0) >> }

FnCalls ==
  { [ fn |-> "checkSecurityHeaders", resHeaders |-> hs ] : hs \in SUBSET HeaderKeys }
    \cup { [ fn |-> "isIgnoredResource", resource |-> r, ignoredPatterns |-> ps ] :
             r \in Resources, ps \in PatternLists }
    \cup { [ fn |-> "newAudit", checksStr |-> ts, important |-> imp ] :
             ts \in ChecksStrs, imp \in BOOLEAN }
    \cup { [ fn |-> "FilterWebsites", rawURLs |-> us ] : us \in RawUrlLists(MaxUrls) }

\* a.checkSecurityHeaders(nr.Headers)
CallCheckSecurityHeaders ==
  /\ fnCall.fn = "checkSecurityHeaders"
  /\ fnRet = NotCalled
  /\ fnRet' = Returned(checkSecurityHeaders(fnCall.resHeaders))
  /\ UNCHANGED << extVars, batchVars, waitVars, fnCall >>

\* isIgnoredResource(resource, ignoredPatterns)
CallIsIgnoredResource ==
  /\ fnCall.fn = "isIgnoredResource"
  /\ fnRet = NotCalled
  /\ fnRet' = Returned(isIgnoredResource(fnCall.resource, fnCall.ignoredPatterns))
  /\ UNCHANGED << extVars, batchVars, waitVars, fnCall >>

\* newAudit(checksStr, important)
CallNewAudit ==
  /\ fnCall.fn = "newAudit"
  /\ fnRet = NotCalled
  /\ \E mkdirOk \in BOOLEAN :
       fnRet' = Returned(newAudit(fnCall.checksStr, fnCall.important, mkdirOk))
  /\ UNCHANGED << extVars, batchVars, waitVars, fnCall >>

\* FilterWebsites(rawURLs)
CallFilterWebsites ==
  /\ fnCall.fn = "FilterWebsites"
  /\ fnRet = NotCalled
  /\ fnRet' = Returned(FilterWebsites(fnCall.rawURLs))
  /\ UNCHANGED << extVars, batchVars, waitVars, fnCall >>

InitFn ==
  /\ checksStr = << >>
  /\ important = FALSE
  /\ BatchStart
  /\ WaitParked
  /\ fnCall \in FnCalls
  /\ fnRet = NotCalled
  /\ ExtParked

NextFn ==
  \/ CallCheckSecurityHeaders
  \/ CallIsIgnoredResource
  \/ CallNewAudit
  \/ CallFilterWebsites

SpecFn == InitFn /\ [][NextFn]_vars


\* ------------------------------------------------------- extractWebsites
\* the URL sources newExtractors can build, in the order it appends them
SourceNames == << "googlePlaces", "googleSearch", "csv" >>

\* the extractors arguments: newExtractors (part_009) always has the two
\* Google sources and the CSV source when an input file is given;
\* NewExtractors (part_007) leaves out each source that is not configured
ExtractorLists(fn) ==
  IF fn = "extractWebsites"
  THEN { << "googlePlaces", "googleSearch" >>, SourceNames }
  ELSE { << "googlePlaces" >>, << "googleSearch" >>, << "csv" >>,
         << "googlePlaces", "googleSearch" >>, << "googlePlaces", "csv" >>,
         << "googleSearch", "csv" >>, SourceNames }

\* what a source's extract returns when it succeeds, and its error when not
UrlsOf ==
  [ googlePlaces |-> << << "h", "t", "t", "p", "s", ":", "/", "/", "E", "x", "a", "m", "p", "l", "e", ".", "c", "o", "m", "/" >>, << "h", "t", "t", "p", "s", ":", "/", "/", "w", "w", "w", ".", "F", "a", "c", "e", "b", "o", "o", "k", ".", "c", "o", "m", "/", "s", "h", "o", "p" >> >>,
    googleSearch |-> << << "h", "t", "t", "p", ":", "/", "/", "e", "x", "a", "m", "p", "l", "e", ".", "c", "o", "m", "/", "a", "b", "o", "u", "t" >>, << "H", "T", "T", "P", "S", ":", "/", "/", "b", ".", "c", "o" >> >>,
    csv          |-> << << "e", "x", "a", "m", "p", "l", "e", ".", "o", "r", "g", "/", "c", "o", "n", "t", "a", "c", "t" >>, << "H", "T", "T", "P", "S", ":", "/", "/", "b", ".", "c", "o" >> >> ]

ExtractErr ==
  [ googlePlaces |-> "places search failed", googleSearch |-> "search scrape failed",
    csv |-> "csv read failed" ]

\* makeResultCh with a channel that buffers one value
makeResultCh_CapOne(exts) == Chan(1)

\* resultCh := make(chan result, len(extractors))
makeResultCh(exts) == Chan(Len(exts))

\* resultsWanted with the collecting loop ending after the first result
resultsWanted_FirstOnly(exts) == IF exts = << >> THEN 0 ELSE 1

\* the number of results the collecting loop takes: one per extractor
resultsWanted(exts) == Len(exts)

\* the error ExtractWebsites (part_007) returns: "failed to extract from %s: %w"
\* with ext.GetName() of the range variable and r.err; extractWebsites
\* (part_009) returns r.err itself
ErrorFor(fn, ext, err) ==
  IF fn = "ExtractWebsites"
  THEN [ websites |-> << >>, err |-> "failed to extract from", name |-> ext, cause |-> err ]
  ELSE [ websites |-> << >>, err |-> err, name |-> "", cause |-> err ]

Goroutine(at, urls, err) == [ at |-> at, urls |-> urls, err |-> err ]

\* go func(e extractor) { ... }(ext), for the extractor the launch loop is at
goExtract ==
  /\ epc = "launch"
  /\ ek <= Len(extractors)
  /\ gor' = [ gor EXCEPT ![extractors[ek]] = Goroutine("extract", << >>, "nil") ]
  /\ ek' = ek + 1
  /\ UNCHANGED << batchVars, waitVars, fnVars, efn, extractors, resultCh, epc, allURLs, received, eret >>

\* the launch loop is over: the collecting loop begins
beginCollect ==
  /\ epc = "launch"
  /\ ek > Len(extractors)
  /\ epc' = "collect"
  /\ ek' = 1
  /\ UNCHANGED << batchVars, waitVars, fnVars, efn, extractors, gor, resultCh, allURLs, received, eret >>

\* urls, err := e.extract(ctx) returns in the goroutine of extractor e
extractReturns ==
  /\ epc # "fatal"
  /\ \E e \in DOMAIN gor :
       /\ gor[e].at = "extract"
       /\ \/ gor' = [ gor EXCEPT ![e] = Goroutine("send", UrlsOf[e], "nil") ]
          \/ gor' = [ gor EXCEPT ![e] = Goroutine("send", << >>, ExtractErr[e]) ]
  /\ UNCHANGED << batchVars, waitVars, fnVars, efn, extractors, resultCh, epc, ek, allURLs, received, eret >>

\* resultCh <- result{urls, err}: possible while the buffer has room
sendResult ==
  /\ epc # "fatal"
  /\ \E e \in DOMAIN gor :
       /\ gor[e].at = "send"
       /\ Len(resultCh.buf) < resultCh.cap
       /\ resultCh' = [ resultCh EXCEPT !.buf = Append(@, [ urls |-> gor[e].urls, err |-> gor[e].err ]) ]
       /\ gor' = [ gor EXCEPT ![e].at = "exit" ]
  /\ UNCHANGED << batchVars, waitVars, fnVars, efn, extractors, epc, ek, allURLs, received, eret >>

\* r := <-resultCh in the collecting loop: fail on first error, else append
receiveResult ==
  /\ epc = "collect"
  /\ ek <= resultsWanted(extractors)
  /\ resultCh.buf # << >>
  /\ LET r == Head(resultCh.buf) IN
       /\ resultCh' = [ resultCh EXCEPT !.buf = Tail(@) ]
       /\ received' = Append(received, r)
       /\ IF r.err # "nil"
          THEN /\ eret' = ErrorFor(efn, extractors[ek], r.err)
               /\ epc' = "returned"
               /\ UNCHANGED << ek, allURLs >>
          ELSE /\ allURLs' = allURLs \o r.urls
               /\ ek' = ek + 1
               /\ UNCHANGED << epc, eret >>
  /\ UNCHANGED << batchVars, waitVars, fnVars, efn, extractors, gor >>

\* return filterWebsites(allURLs), nil
returnWebsites ==
  /\ epc = "collect"
  /\ ek > resultsWanted(extractors)
  /\ eret' = [ websites |-> FilterWebsites(allURLs), err |-> "nil", name |-> "", cause |-> "nil" ]
  /\ epc' = "returned"
  /\ UNCHANGED << batchVars, waitVars, fnVars, efn, extractors, gor, resultCh, ek, allURLs, received >>

\* main after extractWebsites: log.Fatalf on an error, which ends the
\* process and every goroutine with it; audit.run otherwise
mainAfterExtract ==
  /\ epc = "returned"
  /\ epc' = IF eret.err # "nil" THEN "fatal" ELSE "audit"
  /\ UNCHANGED << batchVars, waitVars, fnVars, efn, extractors, gor, resultCh, ek, allURLs, received, eret >>

InitExtract ==
  /\ checksStr = << >>
  /\ important = FALSE
  /\ BatchStart
  /\ WaitParked
  /\ FnParked
  /\ efn \in { "extractWebsites", "ExtractWebsites" }
  /\ extractors \in ExtractorLists(efn)
  /\ gor = [ e \in { extractors[k] : k \in 1..Len(extractors) } |-> Goroutine("none", << >>, "nil") ]
  /\ resultCh = makeResultCh(extractors)
  /\ epc = "launch"
  /\ ek = 1
  /\ allURLs = << >>
  /\ received = << >>
  /\ eret = NoExtractResult

NextExtract ==
  \/ goExtract
  \/ beginCollect
  \/ extractReturns
  \/ sendResult
  \/ receiveResult
  \/ returnWebsites
  \/ mainAfterExtract

SpecExtract == InitExtract /\ [][NextExtract]_vars


\* ============================================================= properties
\* ---------------------------------------------------- audit.run (Spec)
\* the sites audit.run has finished with
Audited == 1..(i - 1)

\* runSingle has returned without recording an error
CleanReturn == pc = "single" /\ step = "return" /\ result.auditErrs = << >>

\* C1: when audit.run returns its result list, the list is as long as the
\* website list and entry k is the result of auditing website k, whichever
\* sites failed.
C1_ResultsMatchWebsites ==
  (pc = "returned" /\ runErr = "nil") =>
    /\ Len(results) = Len(websites)
    /\ \A k \in 1..Len(websites) : results[k].website = websites[k].domain

\* run has returned a two-site list whose first site failed and whose
\* second did not
C1_Witness ==
  /\ pc = "returned"
  /\ runErr = "nil"
  /\ Len(websites) = 2
  /\ results[1].auditErrs # << >>
  /\ results[2].auditErrs = << >>

\* C2: in runSingle's result, at every point of the pipeline and in every
\* result stored, a check whose enabled flag is false keeps the zero value of
\* its result, whatever the page holds.
C2_DisabledChecksStayZero ==
  \A c \in Checks :
    /\ (pc = "single" /\ ~a.checks[c].enabled) =>
         /\ ~result.checks[c].enabled
         /\ result.checks[c].result = ZeroResult(c)
    /\ \A k \in 1..Len(results) :
         ~results[k].checks[c].enabled => results[k].checks[c].result = ZeroResult(c)
    /\ \A k \in Audited \cap (1..Len(results)) :
         results[k].checks[c].enabled = a.checks[c].enabled

\* a site was audited to the end on a page with console errors and
\* responsive issues while consoleErrs was disabled and another check ran
C2_Witness ==
  /\ CleanReturn
  /\ ~a.checks["consoleErrs"].enabled
  /\ page.content.consoleErrs # << >>
  /\ a.checks["requestErrs"].enabled
  /\ result.checks["requestErrs"].result # << >>

\* the steps that populate an in-page check result
InPageSteps == EvalChecks \cup { "screenshot", "writeFile" }

\* C3: once the main-document status is >= 400, runSingle is returning a
\* result with a non-empty auditErrs, every in-page check result is still zero,
\* and no evaluation or screenshot step has run for the site.
C3_StatusFailureStopsPipeline ==
  (pc = "single" /\ page.status >= 400) =>
    /\ step = "return"
    /\ result.auditErrs # << >>
    /\ \A c \in EvalChecks \cup { "screenshot" } :
         result.checks[c].result = ZeroResult(c)
    /\ \A k \in 1..Len(trace) : trace[k] \notin InPageSteps

\* a page answered 400 with content that every enabled check would report
C3_Witness ==
  /\ pc = "single"
  /\ page.status = 400
  /\ page.content.consoleErrs # << >>
  /\ a.checks["consoleErrs"].enabled
  /\ a.checks["screenshot"].enabled
  /\ step = "return"

\* C4: a site's failure never becomes run's error and never stops the loop:
\* run's error stays nil once the loop has begun, each finished site holds its
\* own result with at most the one error that ended it, a new site starts with
\* no error, and run returns only after the last site.
C4_SiteFailuresAreIsolated ==
  /\ pc \in { "loop", "single" } => runErr = "nil"
  /\ (pc = "returned" /\ results # << >>) =>
       (runErr = "nil" /\ i = Len(websites) + 1)
  /\ \A k \in 1..Len(results) :
       /\ Len(results[k].auditErrs) <= 1
       /\ k \in Audited => results[k].website = websites[k].domain
       /\ k \notin Audited => results[k] = ZeroAuditResult
  /\ (pc = "single" /\ trace = << >>) => result.auditErrs = << >>

\* the second site has been audited to the end without error after the first
\* site failed
C4_Witness ==
  /\ CleanReturn
  /\ i = 2
  /\ results[1].auditErrs # << >>
  /\ "checkpoint" \in { trace[k] : k \in 1..Len(trace) }

\* C5: when the browser cannot be opened, run returns "failed to open
\* browser" with no result list, and runSingle is never entered; runSingle
\* runs only on a running browser.
C5_LaunchFailureIsFatal ==
  /\ runErr = "failed to open browser" =>
       /\ pc = "returned"
       /\ results = << >>
       /\ i = 0
       /\ step = "none"
       /\ trace = << >>
       /\ siteCtx = "none"
       /\ browser = "closed"
  /\ pc = "single" => (browser = "running" /\ runErr = "nil")

\* the launch failed for a non-empty website list
C5_Witness ==
  /\ runErr = "failed to open browser"
  /\ Len(websites) = 2
  /\ pc = "returned"

\* the steps of the site so far
Done == { trace[k] : k \in 1..Len(trace) }

\* C9: after waitNetworkIdle ends through its maxWait timer, runSingle
\* records no idle error, goes on to the settle delay, and a run that then
\* ends without error has passed the checkpoint and carried out every enabled
\* check.
C9_IdleTimeoutIsSoft ==
  (pc = "single" /\ idle.via = "timeout") =>
    /\ idle.err = "DeadlineExceeded"
    /\ \A k \in 1..Len(result.auditErrs) :
         result.auditErrs[k] # "failed to wait for page to be idle"
    /\ step = "settle" \/ "settle" \in Done
    /\ (step = "return" /\ result.auditErrs = << >>) =>
         /\ "checkpoint" \in Done
         /\ \A c \in Checks \ { "techStack" } : a.checks[c].enabled => c \in Done
         /\ (a.checks["techStack"].enabled /\ ~a.important) => "techStack" \in Done

\* a site whose idle wait timed out was audited to the end without error,
\* tech stack and screenshot included
C9_Witness ==
  /\ CleanReturn
  /\ idle.via = "timeout"
  /\ "techStack" \in Done
  /\ result.checks["screenshot"].result = TRUE

\* runSingle is past the point where it decides on the tech-stack evaluation
PastTechDecision ==
  /\ pc = "single"
  /\ \/ step \in { "screenshot", "writeFile" }
     \/ "techStack" \in Done
     \/ CleanReturn

\* C10: with techStack enabled, past the decision point the tech-stack
\* evaluation has run exactly when important mode is off or responsiveIssues
\* or formIssues hold a finding; when it has not run, techStack's result is
\* empty.
C10_ImportantModeShortCircuit ==
  (PastTechDecision /\ a.checks["techStack"].enabled) =>
    /\ "techStack" \in Done <=>
         \/ ~a.important
         \/ result.checks["responsiveIssues"].result # << >>
         \/ result.checks["formIssues"].result # << >>
    /\ "techStack" \notin Done => result.checks["techStack"].result = << >>

\* important mode, a page with a detectable tech stack and no responsive or
\* form finding: the site was audited to the end and the evaluation was skipped
C10_Witness ==
  /\ CleanReturn
  /\ a.important
  /\ a.checks["techStack"].enabled
  /\ page.content.techStack # << >>
  /\ "formIssues" \in Done
  /\ "techStack" \notin Done

\* ---------------------------------------- waitNetworkIdle (SpecIdle)
\* exactly one tracked request started and ended during the wait
OneRequestCompleted == hist.started = 1 /\ hist.ended = 1

\* C6 as stated: one non-ignored request starts and then ends, no other
\* starts: the call returns nil through the idle timer, before maxWait.
C6_AsStated ==
  (wpc = "returned" /\ OneRequestCompleted /\ wctx = "live" /\ ~hist.fault) =>
    /\ wret.via = "idleTimer"
    /\ wret.err = "nil"
    /\ wret.at < maxWait

\* C6: one non-ignored request starts while the select is pending and ends
\* more than idleTime before maxWait, no other starts, and ctx stays live:
\* the wait lasts no longer than idleTime past the request's end, and the call
\* returns nil through the idle timer at that instant, before maxWait.
C6_CompletedRequestReachesIdle ==
  (OneRequestCompleted /\ ~hist.lateStart /\ hist.endAt + idleTime < maxWait
     /\ wctx = "live") =>
    /\ wpc = "select" => now <= hist.endAt + idleTime
    /\ wpc \in { "select", "returned" }
    /\ wpc = "returned" =>
         /\ wret.via = "idleTimer"
         /\ wret.err = "nil"
         /\ wret.at = hist.endAt + idleTime
         /\ wret.at < maxWait

\* a request that outlasted the static-site delay failed, and the call
\* returned through the idle timer one quiet period later
C6_Witness ==
  /\ wpc = "returned"
  /\ OneRequestCompleted
  /\ wret.via = "idleTimer"
  /\ hist.endAt > staticSiteDelay
  /\ wret.at = hist.endAt + idleTime
  /\ \E id \in RequestIDs : net[id].state = "failed"

\* C7: while no non-ignored request start is observed and ctx is live, the
\* select is left at the static-site delay through the static-site timer; with
\* the browser answering the DOM-ready wait, the call returns nil through
\* that branch, never through the maxWait timer.
C7_StaticPageTakesStaticBranch ==
  (hist.started = 0 /\ wctx = "live") =>
    /\ wpc = "select" => now <= staticSiteDelay
    /\ wpc = "staticReady" => (wret.via = "staticSiteTimer" /\ wret.at = staticSiteDelay)
    /\ (wpc = "returned" /\ ~hist.fault) =>
         /\ wret.via = "staticSiteTimer"
         /\ wret.err = "nil"
         /\ wret.at >= staticSiteDelay

\* a page whose only request was an ignored one returned through the static
\* branch
C7_Witness ==
  /\ wpc = "returned"
  /\ hist.started = 0
  /\ wret.via = "staticSiteTimer"
  /\ wret.err = "nil"
  /\ \E id \in RequestIDs : net[id].state = "sent" /\ ~tracked(net[id].url)
  /\ \A id \in RequestIDs : net[id].state = "sent" => ~tracked(net[id].url)

C12_NavigationScheme ==
  pc = "single" =>
    IF "navigate" \in Done
    THEN /\ navUrl.domain = websites[i].domain
         /\ a.checks["secure"].enabled => navUrl.scheme = "http"
         /\ ~a.checks["secure"].enabled => navUrl.scheme = websites[i].scheme
    ELSE navUrl = NoUrl

\* an https site was navigated to over http with the secure check enabled,
\* and the navigation succeeded
C12_Witness ==
  /\ pc = "single"
  /\ step = "waitBody"
  /\ a.checks["secure"].enabled
  /\ websites[i].scheme = "https"
  /\ navUrl.scheme = "http"

\* C16: while the checks string is one that parseAndValidateChecks rejects,
\* main is at newAudit or has terminated there: no website list has been
\* extracted, no browser has been started and no result exists; main goes
\* past newAudit only with a valid audit instance.
C16_ConfigErrorsBeforeBrowser ==
  /\ parseAndValidateChecks(checksStr, important).err # "nil" =>
       /\ pc \in { "newAudit", "fatal" }
       /\ browser = "none"
       /\ websites = << >>
       /\ results = << >>
       /\ ~a.valid
  /\ pc \notin { "newAudit", "fatal" } => a.valid
  /\ pc = "fatal" => (browser = "none" /\ websites = << >> /\ step = "none")

\* main has terminated on an unknown check name
C16_Witness ==
  /\ pc = "fatal"
  /\ ~important
  /\ parseAndValidateChecks(checksStr, important).err = "unknown check"

\* C17: the audit instance's checks stay as parseAndValidateChecks computed
\* them, with every result zero; each call of runSingle starts from a copy of
\* them, and the enabled flags of its result and of every stored result are
\* those of the selection.
C17_SelectionUnchanged ==
  a.valid =>
    /\ a.checks = parseAndValidateChecks(checksStr, important).checks
    /\ \A c \in Checks : a.checks[c].result = ZeroResult(c)
    /\ (pc = "single" /\ trace = << >>) => result.checks = a.checks
    /\ \A c \in Checks :
         /\ pc = "single" => result.checks[c].enabled = a.checks[c].enabled
         /\ \A k \in Audited \cap (1..Len(results)) :
              results[k].checks[c].enabled = a.checks[c].enabled

\* the second site starts from the zero selection after the first site's
\* result was populated
C17_Witness ==
  /\ pc = "single"
  /\ i = 2
  /\ trace = << >>
  /\ results[1].checks["techStack"].result # << >>
  /\ results[1].checks["secure"].result = TRUE
  /\ result.checks["techStack"].result = << >>

\* C18 as stated: the batch ctx was cancelled while the site was being
\* audited (before runSingle reached its return): the site's result has a
\* non-empty auditErrs.
C18_AsStated ==
  (pc = "single" /\ step = "return" /\ cancelledAt \in { "roundTrip", "local" }) =>
    result.auditErrs # << >>

\* C18: once the batch ctx is cancelled the site's context is done at once;
\* a site that had a browser round trip at hand at the cancellation returns
\* with a non-empty auditErrs; a site begun after the cancellation fails at its
\* first step; and run still returns nil error and a list of full length.
C18_CancellationAbortsSites ==
  /\ (pc = "single" /\ batchCtx = "canceled") => siteCtx \in { "canceled", "deadline" }
  /\ (pc = "single" /\ cancelledAt = "roundTrip" /\ step = "return") =>
       result.auditErrs # << >>
  /\ (pc = "single" /\ batchCtx = "canceled" /\ cancelledAt = "none") =>
       /\ step \in { "blankNav", "return" }
       /\ step = "return" => result.auditErrs = << "failed to initialise window" >>
  /\ (pc = "returned" /\ batchCtx = "canceled" /\ results # << >>) =>
       /\ runErr = "nil"
       /\ Len(results) = Len(websites)
       /\ i = Len(websites) + 1

\* the ctx was cancelled during the first of two sites' idle wait, and the
\* site returns with the idle wait's error
C18_Witness ==
  /\ pc = "single"
  /\ step = "return"
  /\ i = 1
  /\ Len(websites) = 2
  /\ cancelledAt = "roundTrip"
  /\ idle.via = "ctxDone"
  /\ result.auditErrs = << "failed to wait for page to be idle" >>

\* C19 as stated: every browser round trip runSingle has at hand once the
\* site's deadline has passed runs under a context that is done.
C19_AsStated ==
  (pc = "single" /\ siteCtx = "deadline" /\ Kind(step) = "roundTrip") =>
    CtxOf(step) # "live"

\* ------------------------------------------- properties of the functions
\* the call at hand has returned
Called(fn) == fnCall.fn = fn /\ fnRet.done

\* the required list, as the contract names it
RequiredHeaders ==
  << "Content-Security-Policy", "Strict-Transport-Security",
     "X-Content-Type-Options", "X-Frame-Options", "Permissions-Policy",
     "Referrer-Policy" >>

PresentIn(resHeaders, header) ==
  \E key \in resHeaders : FoldKey(key) = FoldKey(header)

IsAbsent(header) == ~PresentIn(fnCall.resHeaders, header)

\* C11: checkSecurityHeaders returns exactly the required headers that have no
\* case-insensitively equal key in the response headers, in the order of the
\* required list and without duplicates; a response with the other four but
\* without Strict-Transport-Security and X-Frame-Options yields exactly
\* << Strict-Transport-Security, X-Frame-Options >>.
C11_MissingHeadersExact ==
  Called("checkSecurityHeaders") =>
    /\ fnRet.value = SelectSeq(RequiredHeaders, IsAbsent)
    /\ \A j, k \in 1..Len(fnRet.value) : j # k => fnRet.value[j] # fnRet.value[k]
    /\ ( /\ \A h \in { "Content-Security-Policy", "X-Content-Type-Options",
                       "Permissions-Policy", "Referrer-Policy" } :
                PresentIn(fnCall.resHeaders, h)
         /\ ~PresentIn(fnCall.resHeaders, "Strict-Transport-Security")
         /\ ~PresentIn(fnCall.resHeaders, "X-Frame-Options") )
       => fnRet.value = << "Strict-Transport-Security", "X-Frame-Options" >>

C11_Witness ==
  /\ Called("checkSecurityHeaders")
  /\ fnCall.resHeaders =
       { "content-security-policy", "X-Content-Type-Options", "Permissions-Policy",
         "Referrer-Policy", "Server" }
  /\ fnRet.value = << "Strict-Transport-Security", "X-Frame-Options" >>

\* the nine names a checks string may hold
ValidNames ==
  { "security", "lcp", "console", "request", "headers", "mobile", "form", "tech",
    "screenshot" }

\* positions of the tokens that, trimmed, are not a valid name
Offending(tokens) == { k \in 1..Len(tokens) : tokens[k].name \notin ValidNames }

FirstOffending(tokens) ==
  CHOOSE k \in Offending(tokens) : \A j \in Offending(tokens) : k <= j

\* C13: selecting checks from an explicit string fails with a configuration
\* error naming the first token that, trimmed, is not one of the nine valid
\* names; newAudit then returns no audit instance.
C13_UnknownCheckRejected ==
  ( /\ Called("newAudit")
    /\ ~fnCall.important
    /\ fnCall.checksStr # << >>
    /\ Offending(fnCall.checksStr) # {} )
  => /\ fnRet.value.err = "failed to parse audit checks"
     /\ fnRet.value.cause = "unknown check"
     /\ fnRet.value.detail = fnCall.checksStr[FirstOffending(fnCall.checksStr)].name
     /\ fnRet.value.audit = NoAudit

C13_Witness ==
  /\ Called("newAudit")
  /\ ~fnCall.important
  /\ fnCall.checksStr = << Token(1, "lcp", 0), Token(0, "bogus", 0) >>
  /\ fnRet.value.cause = "unknown check"
  /\ fnRet.value.detail = "bogus"
  /\ fnRet.value.audit = NoAudit

\* C14: the important flag together with a non-empty checks string is rejected
\* with a configuration error, and no selection is produced.
C14_ImportantExcludesExplicit ==
  ( /\ Called("newAudit")
    /\ fnCall.important
    /\ fnCall.checksStr # << >> )
  => /\ fnRet.value.err = "failed to parse audit checks"
     /\ fnRet.value.cause = "important checks are predefined"
     /\ fnRet.value.audit = NoAudit
     /\ \A c \in Checks : ~fnRet.value.audit.checks[c].enabled

C14_Witness ==
  /\ Called("newAudit")
  /\ fnCall.important
  /\ fnCall.checksStr = << Token(0, "security", 0), Token(0, "tech", 1) >>
  /\ fnRet.value.cause = "important checks are predefined"
  /\ fnRet.value.audit = NoAudit

\* the check each valid name stands for
NamedCheck ==
  [ security |-> "secure", lcp |-> "lcp", console |-> "consoleErrs",
    request |-> "requestErrs", headers |-> "missingHeaders",
    mobile |-> "responsiveIssues", form |-> "formIssues", tech |-> "techStack",
    screenshot |-> "screenshot" ]

\* the selection the three modes call for
ExpectedSelection ==
  IF fnCall.important THEN { "secure", "responsiveIssues", "formIssues", "techStack" }
  ELSE IF fnCall.checksStr = << >>
  THEN { "secure", "lcp", "consoleErrs", "requestErrs", "responsiveIssues",
         "formIssues", "techStack", "missingHeaders", "screenshot" }
  ELSE { NamedCheck[fnCall.checksStr[k].name] : k \in 1..Len(fnCall.checksStr) }

EnabledIn(checks) == { c \in Checks : checks[c].enabled }

\* C15: with the important flag and an empty checks string exactly secure,
\* responsiveIssues, formIssues and techStack are enabled; with neither, all
\* nine checks; with a valid explicit string exactly the checks it names, and
\* every other check is disabled.  (The only other outcome of such a call is
\* the screenshot directory failing to be created, when screenshot is among
\* the selected checks.)
C15_SelectionModes ==
  ( /\ Called("newAudit")
    /\ \/ fnCall.important /\ fnCall.checksStr = << >>
       \/ ~fnCall.important /\ Offending(fnCall.checksStr) = {} )
  => IF fnRet.value.err = "nil"
     THEN /\ fnRet.value.audit.valid
          /\ fnRet.value.audit.important = fnCall.important
          /\ EnabledIn(fnRet.value.audit.checks) = ExpectedSelection
     ELSE /\ fnRet.value.cause = "failed to create screenshot directory"
          /\ "screenshot" \in ExpectedSelection

C15_Witness ==
  /\ Called("newAudit")
  /\ ~fnCall.important
  /\ fnCall.checksStr = << Token(0, "headers", 0), Token(1, "tech", 0) >>
  /\ fnRet.value.err = "nil"
  /\ EnabledIn(fnRet.value.audit.checks) = { "missingHeaders", "techStack" }

\* str = prefix followed by something
StartsWith(str, prefix) == \E n \in 0..Len(str) : SubSeq(str, 1, n) = prefix

\* substr occurs somewhere in str
IsSubstring(str, substr) ==
  \E from \in 1..(Len(str) + 1) : \E to \in 0..Len(str) :
    from <= to + 1 /\ SubSeq(str, from, to) = substr

\* C20: isIgnoredResource is true exactly when the resource starts with
\* "blob:" or "data:" or contains one of the patterns; with the idle patterns
\* it is true for the data: URL, the blob: URL and the google-analytics URL and
\* false for https://example.com/app.js; the call changes nothing else.
C20_IgnoredResourceExact ==
  Called("isIgnoredResource") =>
    /\ fnRet.value =
         ( \/ StartsWith(fnCall.resource, << "b", "l", "o", "b", ":" >>)
           \/ StartsWith(fnCall.resource, << "d", "a", "t", "a", ":" >>)
           \/ \E j \in 1..Len(fnCall.ignoredPatterns) :
                IsSubstring(fnCall.resource, fnCall.ignoredPatterns[j]) )
    /\ fnCall.ignoredPatterns = ignoredIdlePatterns =>
         /\ fnCall.resource \in { DataImageUrl, BlobUrl, AnalyticsUrl } => fnRet.value = TRUE
         /\ fnCall.resource = AppJsUrl => fnRet.value = FALSE
    /\ fnCall \in FnCalls
    /\ BatchStart /\ WaitParked

C20_Witness ==
  /\ Called("isIgnoredResource")
  /\ fnCall.resource = DataImageUrl
  /\ fnCall.ignoredPatterns = ignoredIdlePatterns
  /\ fnRet.value = TRUE

\* --------------------------------------------------- the report (SpecMain)
\* the header text of each check's column, in the fixed check order
ColumnTitles ==
  << << "secure", "Secure" >>, << "lcp", "LCP (ms)" >>,
     << "consoleErrs", "Console Errors" >>, << "requestErrs", "Request Errors" >>,
     << "missingHeaders", "Missing Headers" >>,
     << "responsiveIssues", "Responsive Issues" >>,
     << "formIssues", "Form Issues" >>, << "techStack", "Detected Tech" >>,
     << "screenshot", "Screenshot" >> >>

IsSelected(col) == a.checks[col[1]].enabled

\* the header row the batch's selection calls for
ExpectedHeader ==
  LET cols == SelectSeq(ColumnTitles, IsSelected) IN
  << "Website" >> \o [ k \in 1..Len(cols) |-> cols[k][2] ] \o << "Audit Errors" >>

\* C21: the report's header row is "Website", one column per enabled check in
\* the fixed check order, then "Audit Errors"; there is one data row per
\* result, and every data row has as many columns as the header row, 2 plus
\* the number of enabled checks, also for sites whose pipeline aborted early.
C21_ReportColumns ==
  pc = "done" =>
    /\ Len(report) = Len(results) + 1
    /\ report[1] = ExpectedHeader
    /\ \A k \in 2..Len(report) :
         /\ Len(report[k]) = Len(report[1])
         /\ Len(report[k]) = 2 + Cardinality({ c \in Checks : a.checks[c].enabled })
         /\ report[k][1] = << results[k - 1].website >>

\* a report of two sites over three check columns, the first site aborted
\* before the target navigation, the second audited without error
C21_Witness ==
  /\ pc = "done"
  /\ Len(results) = 2
  /\ results[1].auditErrs = << "failed to emulate mobile device" >>
  /\ results[2].auditErrs = << >>
  /\ report[1] = << "Website", "LCP (ms)", "Missing Headers", "Audit Errors" >>
  /\ Len(report[2]) = 4
  /\ Len(report[3]) = 4

\* ------------------------------------------------ runSingle's order (Spec)
\* C22: sites are audited one at a time: a site's pipeline runs only between
\* the loop handing it to runSingle and runSingle's return; when the next
\* site starts, the one before has returned, its result is stored and its
\* window context and deadline are cancelled, so never two window contexts
\* are alive and never two pipelines active.
C22_OneSiteAtATime ==
  /\ Cardinality(windows) <= 1
  /\ pc = "single" =>
       /\ windows = {i}
       /\ siteCtx # "none"
       /\ step # "none"
       /\ results[i] = ZeroAuditResult
       /\ i > 1 => results[i - 1].website = websites[i - 1].domain
  /\ pc # "single" =>
       /\ windows = {}
       /\ siteCtx = "none"
       /\ step = "none"
       /\ trace = << >>

\* the second site is at its target navigation; the first site's result is
\* stored and only the second site's window exists
C22_Witness ==
  /\ pc = "single"
  /\ i = 2
  /\ step = "navigate"
  /\ windows = {2}
  /\ siteCtx = "live"
  /\ results[1].website = "a.com"
  /\ results[1].auditErrs = << >>

\* ------------------------------------------- the idle detector (SpecIdle)
\* the step is the listener handling request id's start
StartOf(id) == net[id].state = "new" /\ net'[id].state = "sent"

\* the step is the listener handling request id's finish or failure
EndOf(id) == net[id].state = "sent" /\ net'[id].state \in {"finished", "failed"}

\* the URL is one the detector ignores
IgnoredUrl(url) == isIgnoredResource(ToLower(url), ignoredIdlePatterns)

\* C23: a request-started event for a non-ignored resource stops the static
\* timer, puts the request id into activeRequests and stops the idle timer;
\* so the idle timer is never armed while activeRequests is non-empty, and the
\* call never returns through the idle timer while activeRequests holds a
\* request.
C23_RequestStartedTransition ==
  /\ [](DOMAIN activeRequests # {} => ~idleTimer.armed)
  /\ [][ \A id \in RequestIDs :
           (StartOf(id) /\ ~IgnoredUrl(net'[id].url)) =>
             /\ staticSiteTimer' = Stopped
             /\ id \in DOMAIN activeRequests'
             /\ activeRequests'[id] = net'[id].url
             /\ idleTimer' = Stopped ]_vars
  /\ [][ (wpc = "select" /\ wpc' = "returned" /\ wret'.via = "idleTimer") =>
           (wret'.err = "nil" /\ activeRequests = << >>) ]_vars

\* a second tracked request has started after the first one ended and armed
\* the idle timer: the timer is stopped again and the select still waits
C23_Witness ==
  /\ wpc = "select"
  /\ hist.started = 2
  /\ hist.ended = 1
  /\ DOMAIN activeRequests # {}
  /\ idleTimer = Stopped
  /\ staticSiteTimer = Stopped

\* C24: a finished or failed event for a request id in activeRequests removes
\* the id and, if activeRequests is empty then, restarts the idle timer for
\* the full idleTime; otherwise the idle timer stays as it is. An event for an
\* id not in activeRequests changes neither activeRequests nor any of the
\* three timers.
C24_RequestEndedTransition ==
  [][ \A id \in RequestIDs :
        EndOf(id) =>
          IF id \in DOMAIN activeRequests
          THEN /\ DOMAIN activeRequests' = DOMAIN activeRequests \ {id}
               /\ \A k \in DOMAIN activeRequests' : activeRequests'[k] = activeRequests[k]
               /\ idleTimer' = IF DOMAIN activeRequests' = {}
                               THEN [ armed |-> TRUE, at |-> now + idleTime ]
                               ELSE idleTimer
               /\ UNCHANGED << staticSiteTimer, timeout >>
          ELSE UNCHANGED << activeRequests, idleTimer, staticSiteTimer, timeout >> ]_vars

\* of two requests, one was sent before the listener was registered and has
\* ended without effect, the other was tracked and its end armed the idle timer
C24_Witness ==
  /\ wpc = "select"
  /\ \A id \in RequestIDs : net[id].state \in {"finished", "failed"}
  /\ hist.started = 1
  /\ hist.ended = 1
  /\ activeRequests = << >>
  /\ idleTimer = [ armed |-> TRUE, at |-> hist.endAt + idleTime ]
  /\ staticSiteTimer = Stopped

\* C25: the static branch is taken only if the listener has handled no
\* non-ignored request start before; a request start for an ignored resource
\* changes neither activeRequests nor the static timer nor the idle timer;
\* once stopped, the static timer is never armed again.
C25_StaticBranchOnlyWithoutRequests ==
  /\ [][ (wpc = "select" /\ wpc' = "staticReady") => hist.started = 0 ]_vars
  /\ [][ \A id \in RequestIDs :
           (StartOf(id) /\ IgnoredUrl(net'[id].url)) =>
             UNCHANGED << activeRequests, staticSiteTimer, idleTimer >> ]_vars
  /\ [](hist.started > 0 => ~staticSiteTimer.armed)
  /\ [][ (wpc # "call" /\ ~staticSiteTimer.armed) => ~staticSiteTimer'.armed ]_vars

\* the call has returned nil through the static branch at 1 s although every
\* request of the page was made: all were for ignored resources
C25_Witness ==
  /\ wpc = "returned"
  /\ wret = [ via |-> "staticSiteTimer", err |-> "nil", at |-> staticSiteDelay ]
  /\ hist.started = 0
  /\ \A id \in RequestIDs : net[id].state = "sent" /\ IgnoredUrl(net[id].url)

\* C26 (as stated): every call returns no later than maxWait after it began,
\* on every branch.
C26_AsStated == wpc = "returned" => wret.at <= maxWait

\* C27 (as stated): once the call has returned, no event changes
\* activeRequests and none of its timers is stopped or reset.
C27_AsStated ==
  [][ wpc = "returned" =>
        UNCHANGED << activeRequests, idleTimer, staticSiteTimer, timeout >> ]_vars

\* -------------------------------------------- runSingle's steps (SpecMain)
\* the order of the steps as the contract gives it; the DOM-ready wait of the
\* idle wait's static branch belongs to the idle wait
ClaimedOrder ==
  << "blankNav", "blankSleep", "pageEnable", "injectLcp", "injectErr", "emulate",
     "netEnable", "clearCache", "clearCookies", "navigate", "waitBody", "idle",
     "staticReady", "settle", "checkpoint", "missingHeaders",
     "secure", "lcp", "responsiveIssues", "consoleErrs", "requestErrs",
     "formIssues", "techStack", "screenshot", "writeFile" >>

RankTable ==
  [ s \in { ClaimedOrder[k] : k \in 1..Len(ClaimedOrder) } |->
      CHOOSE k \in 1..Len(ClaimedOrder) : ClaimedOrder[k] = s ]

Rank(s) == RankTable[s]

UnconditionalSteps ==
  { "blankNav", "blankSleep", "pageEnable", "emulate", "netEnable", "clearCache",
    "clearCookies", "navigate", "waitBody", "idle", "settle", "checkpoint" }

\* step s may be carried out for the batch's selection
Allowed(s) ==
  CASE s \in UnconditionalSteps -> TRUE
    [] s = "injectLcp"   -> a.checks["lcp"].enabled
    [] s = "injectErr"   -> a.checks["consoleErrs"].enabled \/ a.checks["requestErrs"].enabled
    [] s = "staticReady" -> idle.via = "staticSiteTimer"
    [] s = "writeFile"   -> a.checks["screenshot"].enabled
    [] OTHER             -> a.checks[s].enabled

\* step s may not be skipped (the tech-stack check of important mode may)
Required(s) == Allowed(s) /\ ~(s = "techStack" /\ a.important)

\* no step between positions p and q of the order had to be carried out
NoneSkipped(p, q) == \A k \in (p + 1)..(q - 1) : ~Required(ClaimedOrder[k])

LastStep == trace[Len(trace)]

\* C28: runSingle carries out its steps in the one fixed order, starting with
\* the blank-page navigation; from one step it goes to the next step of the
\* order that the selection calls for, skipping none; it goes on only while no
\* step has failed, and after a failed step it carries out no other and
\* returns with that one error. (The idle wait ending at maxWait is not a
\* failure.)
C28_FixedStepOrder ==
  pc = "single" =>
    /\ IF trace = << >> THEN step = "blankNav" ELSE trace[1] = "blankNav"
    /\ Len(trace) >= 2 =>
         /\ Rank(trace[Len(trace) - 1]) < Rank(LastStep)
         /\ NoneSkipped(Rank(trace[Len(trace) - 1]), Rank(LastStep))
    /\ trace # << >> => Allowed(LastStep)
    /\ (trace # << >> /\ step # "return") =>
         /\ result.auditErrs = << >>
         /\ Allowed(step)
         /\ Rank(LastStep) < Rank(step)
         /\ NoneSkipped(Rank(LastStep), Rank(step))
    /\ result.auditErrs # << >> =>
         /\ step = "return"
         /\ Len(result.auditErrs) = 1
    /\ (step = "return" /\ result.auditErrs = << >>) =>
         NoneSkipped(Rank(LastStep), Len(ClaimedOrder) + 1)

\* in important mode a site has passed the form check, skipped the tech-stack
\* check and returns without error
C28_Witness ==
  /\ pc = "single"
  /\ step = "return"
  /\ a.important
  /\ result.auditErrs = << >>
  /\ LastStep = "formIssues"
  /\ Len(trace) = 16

\* the steps up to the target navigation that the selection calls for
StepsToNavigation ==
  << "blankNav", "blankSleep", "pageEnable" >>
    \o (IF a.checks["lcp"].enabled THEN << "injectLcp" >> ELSE << >>)
    \o (IF a.checks["consoleErrs"].enabled \/ a.checks["requestErrs"].enabled
        THEN << "injectErr" >> ELSE << >>)
    \o << "emulate", "netEnable", "clearCache", "clearCookies", "navigate" >>

Shorter(x, y) == IF x < y THEN x ELSE y

\* C29: the LCP script is registered exactly when the lcp check is enabled and
\* the error script exactly when consoleErrs or requestErrs is enabled, right
\* after the page domain is enabled; a run that reaches the target navigation
\* has made exactly these registrations, all before the navigation.
C29_InjectionBeforeNavigation ==
  pc = "single" =>
    LET n == Shorter(Len(trace), Len(StepsToNavigation)) IN
    /\ SubSeq(trace, 1, n) = SubSeq(StepsToNavigation, 1, n)
    /\ navUrl # NoUrl => n = Len(StepsToNavigation)

\* with request and mobile selected the error script alone was registered, and
\* the site's URL has been navigated to
C29_Witness ==
  /\ pc = "single"
  /\ step = "waitBody"
  /\ ~a.checks["lcp"].enabled
  /\ ~a.checks["consoleErrs"].enabled
  /\ a.checks["requestErrs"].enabled
  /\ trace[4] = "injectErr"
  /\ trace[5] = "emulate"
  /\ navUrl # NoUrl

\* the in-page checks in the order of their evaluation, and the message of
\* each one's failure
EvalOrder ==
  << "secure", "lcp", "responsiveIssues", "consoleErrs", "requestErrs",
     "formIssues", "techStack" >>

EvalFailure ==
  [ secure |-> "failed to evaluate security", lcp |-> "failed to evaluate LCP",
    responsiveIssues |-> "failed to evaluate mobile responsiveness",
    consoleErrs |-> "failed to evaluate console errors",
    requestErrs |-> "failed to evaluate request errors",
    formIssues |-> "failed to evaluate form issues",
    techStack |-> "failed to detect tech stack" ]

\* the evaluation of the check at position f of EvalOrder has failed
EvalFailedAt(f) ==
  /\ pc = "single"
  /\ result.auditErrs # << >>
  /\ result.auditErrs[1] = EvalFailure[EvalOrder[f]]

\* C30: when an in-page evaluation fails, runSingle returns at once with that
\* one entry in auditErrs; the results of the enabled checks evaluated before
\* it, and the header findings if enabled, are in the result; no later check
\* and no screenshot is attempted and their results are zero.
C30_EvaluationFailureKeepsPartial ==
  \A f \in 1..Len(EvalOrder) :
    EvalFailedAt(f) =>
      /\ step = "return"
      /\ Len(result.auditErrs) = 1
      /\ LastStep = EvalOrder[f]
      /\ a.checks["missingHeaders"].enabled =>
           result.checks["missingHeaders"].result = checkSecurityHeaders(page.content.headers)
      /\ \A k \in 1..(f - 1) :
           a.checks[EvalOrder[k]].enabled =>
             result.checks[EvalOrder[k]].result = page.content[EvalOrder[k]]
      /\ \A k \in (f + 1)..Len(EvalOrder) :
           result.checks[EvalOrder[k]].result = ZeroResult(EvalOrder[k])
      /\ result.checks["screenshot"].result = FALSE

\* with all checks selected the console-errors evaluation failed: the LCP and
\* the responsive finding are kept, the request errors the page has were not
\* collected
C30_Witness ==
  /\ pc = "single"
  /\ step = "return"
  /\ result.auditErrs = << "failed to evaluate console errors" >>
  /\ result.checks["lcp"].result = 1800
  /\ result.checks["responsiveIssues"].result = << "No viewport meta tag" >>
  /\ result.checks["missingHeaders"].result # << >>
  /\ page.content["requestErrs"] # << >>
  /\ result.checks["requestErrs"].result = << >>
  /\ a.checks["screenshot"].enabled

\* ---------------------------------------------- auditErrs (SpecMain)
\* the step at which check c is attempted
StepOfCheck(c) == IF c = "screenshot" THEN "writeFile" ELSE c

\* the tech-stack evaluation of important mode is left out when neither the
\* responsive nor the form check found anything
TechStackSkipped(res) ==
  /\ a.important
  /\ res.checks["responsiveIssues"].result = << >>
  /\ res.checks["formIssues"].result = << >>

\* every enabled check of the site at hand has been attempted
AllAttempted ==
  \A c \in Checks :
    a.checks[c].enabled =>
      \/ StepOfCheck(c) \in Done
      \/ c = "techStack" /\ TechStackSkipped(result)

\* C31: auditErrs never holds more than one entry; it is non-empty only at
\* runSingle's return, the entry being the failure of the last step carried
\* out; a result returned with empty auditErrs has had every enabled check
\* attempted (the tech-stack check of important mode excepted when there are
\* no important issues), so a run cut short has a non-empty auditErrs. The
\* result audit.run stores is the one returned.
C31_AuditErrsIffAborted ==
  /\ pc = "single" =>
       /\ Len(result.auditErrs) <= 1
       /\ result.auditErrs # << >> =>
            /\ step = "return"
            /\ result.auditErrs = << ErrMsg(LastStep) >>
       /\ (step = "return" /\ result.auditErrs = << >>) =>
            /\ AllAttempted
            /\ a.checks["screenshot"].enabled => result.checks["screenshot"].result
  /\ (pc \in {"loop", "single"} /\ i > 1) => Len(results[i - 1].auditErrs) <= 1

\* two sites are stored, the first cut short at the emulation, the second
\* complete with its screenshot
C31_Witness ==
  /\ pc = "loop"
  /\ i = 3
  /\ results[1].auditErrs = << "failed to emulate mobile device" >>
  /\ results[2].auditErrs = << >>
  /\ results[2].checks["screenshot"].result
  /\ results[2].checks["consoleErrs"].enabled

\* the checks whose result is filled in before the screenshot
ChecksBeforeScreenshot == Checks \ { "screenshot" }

\* the value check c has after its step succeeded on the page at hand
ValueOnPage(c) ==
  IF c = "missingHeaders" THEN checkSecurityHeaders(page.content.headers)
  ELSE page.content[c]

\* C32: the screenshot is attempted only when the screenshot check is enabled
\* and every step before it has succeeded; when the capture or the write
\* fails, that failure is the one entry of auditErrs, the screenshot result is
\* false, and the results of the checks evaluated before are in the result.
C32_ScreenshotFailure ==
  (pc = "single" /\ trace # << >> /\ LastStep \in {"screenshot", "writeFile"}) =>
    /\ a.checks["screenshot"].enabled
    /\ \A c \in ChecksBeforeScreenshot :
         a.checks[c].enabled =>
           \/ c \in Done /\ result.checks[c].result = ValueOnPage(c)
           \/ c = "techStack" /\ TechStackSkipped(result)
    /\ LastStep = "writeFile" => "screenshot" \in Done
    /\ step # "return" => result.auditErrs = << >>
    /\ result.auditErrs # << >> =>
         /\ result.auditErrs = << ErrMsg(LastStep) >>
         /\ result.checks["screenshot"].result = FALSE

\* with console and screenshot selected the write of the file failed: the
\* console errors collected are kept
C32_Witness ==
  /\ pc = "single"
  /\ step = "return"
  /\ LastStep = "writeFile"
  /\ result.auditErrs = << "failed to write screenshot" >>
  /\ result.checks["screenshot"].result = FALSE
  /\ a.checks["consoleErrs"].enabled
  /\ result.checks["consoleErrs"].result # << >>

\* the wait for the page to be idle ended because the site's deadline passed
DeadlineEndedIdleWait ==
  /\ pc = "single"
  /\ idle.err = "DeadlineExceeded"
  /\ idle.via \in {"ctxDone", "staticSiteTimer"}

\* C33: when the site's deadline passes while the idle wait is pending, the
\* wait's DeadlineExceeded is logged like a maxWait timeout, but the settle
\* delay that follows fails on the expired context: runSingle returns with a
\* non-empty auditErrs and neither the checkpoint nor any in-page check is
\* reached.
C33_DeadlineDuringIdleWait ==
  DeadlineEndedIdleWait =>
    /\ siteCtx = "deadline"
    /\ step \in {"settle", "return"}
    /\ LastStep \in {"idle", "staticReady", "settle"}
    /\ page = NoPage
    /\ \A c \in Checks : result.checks[c].result = ZeroResult(c)
    /\ step = "return" => result.auditErrs = << "failed to wait for page to settle" >>

\* the deadline passed in the idle wait proper, and the site returns with the
\* settle failure
C33_Witness ==
  /\ pc = "single"
  /\ step = "return"
  /\ idle = [ via |-> "ctxDone", err |-> "DeadlineExceeded" ]
  /\ siteCtx = "deadline"
  /\ LastStep = "settle"
  /\ result.auditErrs = << "failed to wait for page to settle" >>

\* ------------------------------------------------ FilterWebsites (SpecFn)
\* the raw URL has a host that url.Parse accepts
HasHost(u) == u # << >> /\ Parse(u).err = "nil" /\ Parse(u).Host # << >>

DomainOf(u) == ToLower(Parse(u).Host)

MatchesBusinessPattern(d) ==
  \E j \in 1..Len(ignoredBusinessPatterns) : IsSubstring(d, ignoredBusinessPatterns[j])

\* the domain is one isIgnoredResource passes over
IgnoredDomain(d) ==
  \/ MatchesBusinessPattern(d)
  \/ StartsWith(d, << "b", "l", "o", "b", ":" >>)
  \/ StartsWith(d, << "d", "a", "t", "a", ":" >>)

\* the positions of the raw URLs that stay: the first occurrence of each
\* domain that is not ignored
Kept(us) ==
  { k \in 1..Len(us) :
      /\ HasHost(us[k])
      /\ ~IgnoredDomain(DomainOf(us[k]))
      /\ \A j \in 1..(k - 1) : HasHost(us[j]) => DomainOf(us[j]) # DomainOf(us[k]) }

\* the position in us the entry w was made from
SourceOf(w, us) == CHOOSE k \in Kept(us) : DomainOf(us[k]) = w.domain

\* C36: FilterWebsites returns one website for the first occurrence of every
\* domain of the raw list that is not ignored, in the order of the raw list:
\* no two entries share a domain, every domain is non-empty, lowercased and
\* matches no ignored business pattern, each entry carries the raw URL and the
\* scheme it was parsed from, and empty, unparsable and host-less URLs are
\* passed over.
C36_FilteredWebsites ==
  Called("FilterWebsites") =>
    LET us == fnCall.rawURLs
        ws == fnRet.value
    IN  /\ Len(ws) = Cardinality(Kept(us))
        /\ \A x \in 1..Len(ws) :
             /\ ws[x].domain # << >>
             /\ ws[x].domain = ToLower(ws[x].domain)
             /\ ~MatchesBusinessPattern(ws[x].domain)
             /\ \E k \in Kept(us) : DomainOf(us[k]) = ws[x].domain
             /\ ws[x].originalURL = us[SourceOf(ws[x], us)]
             /\ ws[x].scheme = Parse(us[SourceOf(ws[x], us)]).Scheme
             /\ \A y \in (x + 1)..Len(ws) :
                  /\ ws[y].domain # ws[x].domain
                  /\ SourceOf(ws[x], us) < SourceOf(ws[y], us)

\* a facebook page, a site and a second URL of that site under another
\* scheme: the one website is the site, from its first URL
C36_Witness ==
  /\ Called("FilterWebsites")
  /\ fnCall.rawURLs = << << "h", "t", "t", "p", "s", ":", "/", "/", "w", "w", "w", ".", "F", "a", "c", "e", "b", "o", "o", "k", ".", "c", "o", "m", "/", "s", "h", "o", "p" >>,
                         << "h", "t", "t", "p", "s", ":", "/", "/", "E", "x", "a", "m", "p", "l", "e", ".", "c", "o", "m", "/" >>,
                         << "h", "t", "t", "p", ":", "/", "/", "e", "x", "a", "m", "p", "l", "e", ".", "c", "o", "m", "/", "a", "b", "o", "u", "t" >> >>
  /\ fnRet.value = << [ originalURL |-> << "h", "t", "t", "p", "s", ":", "/", "/", "E", "x", "a", "m", "p", "l", "e", ".", "c", "o", "m", "/" >>,
                        scheme |-> << "h", "t", "t", "p", "s" >>,
                        domain |-> << "e", "x", "a", "m", "p", "l", "e", ".", "c", "o", "m" >> ] >>

\* --------------------------------------- explicit check strings (SpecFn)
NameSet(tokens) == { tokens[k].name : k \in 1..Len(tokens) }

\* the auditChecks value with exactly the checks of the names enabled
SelectionOf(names) ==
  [ c \in Checks |->
      [ enabled |-> \E n \in names : NamedCheck[n] = c, result |-> ZeroResult(c) ] ]

Reverse(seq) == [ k \in 1..Len(seq) |-> seq[Len(seq) + 1 - k] ]

\* the tokens with blanks put around each name
Spaced(tokens) == [ k \in 1..Len(tokens) |-> Token(1, tokens[k].name, 2) ]

\* check strings with the same names: reordered, with names repeated, with
\* blanks around the names
SameNames(tokens) ==
  { Reverse(tokens), tokens \o tokens, << tokens[Len(tokens)] >> \o tokens,
    tokens \o Reverse(tokens), Spaced(tokens), Spaced(Reverse(tokens)) \o tokens }

\* C37: for an explicit check string of valid names the selection is a
\* function of the set of names alone: exactly the named checks are enabled,
\* and the same string reordered, with names repeated or with blanks around
\* the names gives the same selection.
C37_SelectionDependsOnNameSet ==
  ( /\ Called("newAudit")
    /\ ~fnCall.important
    /\ fnCall.checksStr # << >>
    /\ Offending(fnCall.checksStr) = {} )
  => LET sel == SelectionOf(NameSet(fnCall.checksStr)) IN
     /\ fnRet.value.err = "nil" => fnRet.value.audit.checks = sel
     /\ parseAndValidateChecks(fnCall.checksStr, FALSE).checks = sel
     /\ \A ts \in SameNames(fnCall.checksStr) :
          /\ NameSet(ts) = NameSet(fnCall.checksStr)
          /\ parseAndValidateChecks(ts, FALSE) =
               [ err |-> "nil", detail |-> "none", checks |-> sel ]

\* "lcp, tech" was parsed: lcp and techStack are enabled, as they are for
\* "tech,lcp"
C37_Witness ==
  /\ Called("newAudit")
  /\ ~fnCall.important
  /\ fnCall.checksStr = << Token(0, "lcp", 0), Token(1, "tech", 0) >>
  /\ fnRet.value.err = "nil"
  /\ EnabledIn(fnRet.value.audit.checks) = { "lcp", "techStack" }
  /\ parseAndValidateChecks(<< Token(0, "tech", 0), Token(0, "lcp", 0) >>, FALSE).checks
       = fnRet.value.audit.checks

\* ------------------------------------------- the empty site list (SpecMain)
\* audit.run has been entered and has passed its first statement
RunEntered == pc \in {"loop", "single", "returned", "done", "writeFailed"}

\* C38: audit.run called with an empty site list returns the error "no
\* websites to audit" and no results, and the browser is never started; main
\* calls writeResults only after audit.run returned without error, so the
\* result list it is given has one entry per website and at least one entry.
C38_EmptyListNeverWritten ==
  /\ (RunEntered /\ websites = << >>) =>
       /\ pc = "returned"
       /\ runErr = "no websites to audit"
       /\ results = << >>
       /\ browser = "none"
       /\ report = NoReport
  /\ pc \in {"done", "writeFailed"} =>
       /\ runErr = "nil"
       /\ Len(results) >= 1
       /\ Len(results) = Len(websites)
  /\ pc = "done" => Len(report) >= 2

\* audit.run has returned on the empty list
C38_Witness ==
  /\ pc = "returned"
  /\ a.valid
  /\ websites = << >>
  /\ runErr = "no websites to audit"
  /\ browser = "none"
  /\ results = << >>

\* --------------------------------------------- extraction (SpecExtract)
Exited == { e \in DOMAIN gor : gor[e].at = "exit" }

\* C34: when extractWebsites returns without error it has taken one result
\* per extractor from the channel, so every extractor goroutine has returned
\* from extract and delivered its result and nothing is left in the channel;
\* main goes on to audit.run only after such a return.
C34_ExtractionDoneBeforeAudit ==
  /\ (epc \in {"returned", "audit"} /\ eret.err = "nil") =>
       /\ Exited = DOMAIN gor
       /\ Cardinality(Exited) = Len(extractors)
       /\ Len(received) = Len(extractors)
       /\ resultCh.buf = << >>
  /\ epc = "audit" => eret.err = "nil"

\* all three sources delivered and main is at audit.run with the two
\* websites that remain
C34_Witness ==
  /\ epc = "audit"
  /\ efn = "extractWebsites"
  /\ extractors = SourceNames
  /\ Exited = { "googlePlaces", "googleSearch", "csv" }
  /\ Len(eret.websites) = 2

\* the goroutine of extractor e is at its send and the channel is full
SendBlocked(e) == gor[e].at = "send" /\ Len(resultCh.buf) >= resultCh.cap

\* C35: every extractor is launched before the first result is awaited; the
\* function goes on collecting only while every result taken was a success
\* and returns the error of the first failed result it takes, with no
\* websites; a goroutine that is about to send always finds room in the
\* channel, also after the function has returned.
C35_FirstErrorWins ==
  /\ epc # "none" => resultCh.cap = Len(extractors)
  /\ \A e \in DOMAIN gor : ~SendBlocked(e)
  /\ epc = "collect" =>
       /\ \A e \in DOMAIN gor : gor[e].at # "none"
       /\ \A k \in 1..Len(received) : received[k].err = "nil"
  /\ (epc \in {"returned", "fatal"} /\ eret.err # "nil") =>
       /\ eret.websites = << >>
       /\ received # << >>
       /\ received[Len(received)].err # "nil"
       /\ eret.cause = received[Len(received)].err
       /\ \A k \in 1..(Len(received) - 1) : received[k].err = "nil"

\* the second result taken was a failure: the function has returned while a
\* third result, sent without blocking, stays in the channel
C35_Witness ==
  /\ epc = "returned"
  /\ Len(extractors) = 3
  /\ Len(received) = 2
  /\ received[1].err = "nil"
  /\ received[2].err # "nil"
  /\ eret.err # "nil"
  /\ Len(resultCh.buf) = 1
  /\ Exited = DOMAIN gor

\* the extractor whose Extract call returns the error
OwnerOf(err) == CHOOSE e \in DOMAIN ExtractErr : ExtractErr[e] = err

\* C39 as stated: the error ExtractWebsites returns names the extractor whose
\* Extract call produced the error it wraps.
C39_AsStated ==
  (efn = "ExtractWebsites" /\ epc \in {"returned", "fatal"} /\ eret.err # "nil") =>
    eret.name = OwnerOf(eret.cause)

====
